---- MODULE Spec2Model ----
(***************************************************************************)
(* molsolvent: the streaming LAMMPS-trajectory readers, the worker         *)
(* pipeline of the RDF (gr) and volume calculations and the                *)
(* single-threaded distance and radius-of-gyration calculations.           *)
(*                                                                         *)
(* A line of the trajectory is the sequence of its whitespace-separated    *)
(* tokens (what strings.Fields returns), a token is a string, the stream   *)
(* is a sequence of lines and the bufio.Reader is a cursor into it.        *)
(***************************************************************************)
EXTENDS Integers, Sequences, FiniteSets, TLC

\* ------------------------------------------------------------------ bounds
\* Frames in an input stream.
MaxFrames == 3
\* runtime.NumCPU() ranges over 1..MaxCPU.
MaxCPU == 2

\* ----------------------------------------------------------- small helpers
Min(a, b) == IF a <= b THEN a ELSE b

\* ------------------------------------------------------------------ tokens
\* Decimal tokens of the model.  A token outside this table is not a number.
NumTok == <<"0", "1", "2", "3", "4", "5", "6", "7", "8", "9">>

IsNum(t) == \E i \in 1..Len(NumTok) : NumTok[i] = t

NumVal(t) == (CHOOSE i \in 1..Len(NumTok) : NumTok[i] = t) - 1

\* strconv.Atoi: the value and whether the conversion failed.
Atoi(t) == IF IsNum(t) THEN [v |-> NumVal(t), err |-> FALSE]
                       ELSE [v |-> 0, err |-> TRUE]

\* ---------------------------------------------------------------- float64
\* A float64 is written [hi, lo] for the real number hi * 2^52 + lo with lo
\* far below 2^52: the small integers (hi = 0) and the numbers a little above
\* a multiple of 2^52, where float64's 53-bit significand starts rounding.
F64(hi, lo) == [hi |-> hi, lo |-> lo]

\* The distance between neighbouring float64 values around hi * 2^52.
Ulp(hi) == IF hi <= 1 THEN 1 ELSE IF hi <= 3 THEN 2 ELSE IF hi <= 7 THEN 4 ELSE 8

\* IEEE-754 round-to-nearest, ties to the even significand.
FRound(x) ==
    LET s == Ulp(x.hi)
        q == x.lo \div s
        r == x.lo % s
    IN  IF r = 0 THEN x
        ELSE IF 2 * r < s THEN F64(x.hi, q * s)
        ELSE IF 2 * r > s THEN F64(x.hi, (q + 1) * s)
        ELSE IF q % 2 = 0 THEN F64(x.hi, q * s)
        ELSE F64(x.hi, (q + 1) * s)

\* float64 addition.
FAdd(a, b) == FRound(F64(a.hi + b.hi, a.lo + b.lo))

\* float64 multiplication, for operands of which at most one reaches 2^52.
FMul(a, b) ==
    IF a.hi = 0 THEN FRound(F64(a.lo * b.hi, a.lo * b.lo))
                ELSE FRound(F64(a.hi * b.lo, a.lo * b.lo))

\* float64 subtraction of a small number.
FSub(a, b) == FRound(F64(a.hi, a.lo - b.lo))

\* Tokens of the numbers 2^52, 2^52 + 1 and 2^52 + 2.
BigTok == <<"4503599627370496", "4503599627370497", "4503599627370498">>

\* A parser that takes a token that is no number for 1.
ParseFloatOne(t) == IF IsNum(t) THEN F64(0, NumVal(t)) ELSE F64(0, 1)

\* strconv.ParseFloat with its error dropped: a token that is no number
\* parses to 0.
ParseFloat(t) ==
    IF IsNum(t) THEN F64(0, NumVal(t))
    ELSE IF \E i \in 1..Len(BigTok) : BigTok[i] = t
         THEN F64(1, (CHOOSE i \in 1..Len(BigTok) : BigTok[i] = t) - 1)
         ELSE F64(0, 0)

\* ------------------------------------------------------------ stream cursor
\* bufio.Reader.ReadSlice('\n') at cursor p of stream s: the line, or the
\* empty slice at the end of the stream, where the cursor stays.
AtEOF(s, p) == p > Len(s)

LineAt(s, p) == IF AtEOF(s, p) THEN <<>> ELSE s[p]

\* The cursor after n calls of ReadSlice whose result is dropped.
Skip(s, p, n) == IF n <= 0 THEN p ELSE Min(p + n, Len(s) + 1)

\* A skip that takes x for 1 whenever it is not 0.
ReadCfgNonCvgOnce(s, p, x) ==
    IF x = 0 THEN [pos |-> p, err |-> "nil"]
    ELSE LET p1 == Skip(s, p, 3)
             b  == LineAt(s, p1)
             p2 == Skip(s, p1, 1)
         IN  IF AtEOF(s, p1) THEN [pos |-> p1, err |-> "panic"]
             ELSE IF Len(b) # 1 \/ Atoi(b[1]).err
                  THEN [pos |-> p2, err |-> "atoi"]
                  ELSE [pos |-> Skip(s, p2, 5 + Atoi(b[1]).v), err |-> "nil"]

\* ------------------------------------------------------- package util
\* util.ReadCfgNonCvg(r, x): skips x frames.  The atom count is read from the
\* first skipped frame; an empty slice (end of stream) makes the slice
\* expression string(b)[:len(b)-1] panic.
ReadCfgNonCvg(s, p, x) ==
    IF x = 0 THEN [pos |-> p, err |-> "nil"]
    ELSE LET p1 == Skip(s, p, 3)
             b  == LineAt(s, p1)
             p2 == Skip(s, p1, 1)
         IN  IF AtEOF(s, p1) THEN [pos |-> p1, err |-> "panic"]
             ELSE IF Len(b) # 1 \/ Atoi(b[1]).err
                  THEN [pos |-> p2, err |-> "atoi"]
                  ELSE LET n == Atoi(b[1]).v
                       IN  [pos |-> Skip(s, Skip(s, p2, 5 + n), (x - 1) * (3 + 6 + n)),
                            err |-> "nil"]

\* util.HeaderBox: three lines "lo hi"; the box length is hi - lo.
RECURSIVE HeaderBoxFrom(_, _, _, _)
HeaderBoxFrom(s, p, k, box) ==
    IF k = 3 THEN [pos |-> p, err |-> "nil", box |-> box]
    ELSE LET fields == LineAt(s, p)
         IN  IF Len(fields) # 2
             THEN [pos |-> Skip(s, p, 1), err |-> "box", box |-> box]
             ELSE HeaderBoxFrom(s, Skip(s, p, 1), k + 1,
                      Append(box, FSub(ParseFloat(fields[2]), ParseFloat(fields[1]))))

HeaderBox(s, p) == HeaderBoxFrom(s, p, 0, <<>>)

\* util.Header: three lines, the atom count (a failed Atoi is dropped and
\* leaves 0), one line, then the box.
Header(s, p) ==
    LET p1 == Skip(s, p, 3)
        b  == LineAt(s, p1)
        n  == IF Len(b) = 1 THEN Atoi(b[1]).v ELSE 0
        hb == HeaderBox(s, Skip(s, p1, 2))
    IN  [pos |-> hb.pos, err |-> hb.err, box |-> hb.box, atoms |-> n]

\* util.HeaderWOutAtoms: five lines, then the box.
HeaderWOutAtoms(s, p) == HeaderBox(s, Skip(s, p, 5))

\* ------------------------------------------------- the column-header line
\* The loop over the column names after "ITEM: ATOMS": cols[i] is the
\* 0-based index of the last token equal to names[i] (0 when there is none),
\* found counts the tokens that are one of the names.
ColIndex(fields, name) ==
    LET hits == {k \in 1..Len(fields) : fields[k] = name}
    IN  IF hits = {} THEN 0 ELSE (CHOOSE k \in hits : \A j \in hits : j <= k) - 1

ColsFound(fields, names) ==
    Cardinality({k \in 1..Len(fields) : \E i \in 1..Len(names) : fields[k] = names[i]})

\* The outcome of reading the column-header line at p: "cols" when it has at
\* most two tokens, "find" when fewer than len(cols) names are found.
ReadCols(s, p, names) ==
    LET all    == LineAt(s, p)
        fields == IF Len(all) <= 2 THEN <<>> ELSE SubSeq(all, 3, Len(all))
    IN  [pos     |-> Skip(s, p, 1),
         colsLen |-> Len(fields),
         cols    |-> [i \in 1..Len(names) |-> ColIndex(fields, names[i])],
         err     |-> IF Len(all) <= 2 THEN "cols"
                     ELSE IF ColsFound(fields, names) < Len(names) THEN "find"
                     ELSE "nil"]

\* The rows loop shared by the readers that decode every row: n rows from p,
\* each split on whitespace and refused ("ncols") when its token count is not
\* colsLen; the cursor stays behind the refused row.
RECURSIVE ReadRows(_, _, _, _, _)
ReadRows(s, p, n, cl, rows) ==
    IF n <= 0 THEN [pos |-> p, err |-> "nil", rows |-> rows]
    ELSE LET fields == LineAt(s, p)
         IN  IF Len(fields) # cl
             THEN [pos |-> Skip(s, p, 1), err |-> "ncols", rows |-> rows]
             ELSE ReadRows(s, Skip(s, p, 1), n - 1, cl, Append(rows, fields))

\* The three coordinates of a decoded row.
RowXYZ(fields, cols) == [k \in 1..3 |-> ParseFloat(fields[cols[k] + 1]).lo]

\* ------------------------------------------------------------ errors
\* An error value: where it was wrapped, the step number its message
\* carries (-1: none) and the innermost cause.  Nil is the nil error.
Nil == [site |-> "nil", step |-> -1, cause |-> "nil"]

Errorf(site, step, cause) == [site |-> site, step |-> step, cause |-> cause]

\* ------------------------------------------------------- package gr: read
\* gr.Atoms of the configuration file (type A against type B), and atomsTyp
\* as gr.New builds it.
GrAtoms == [t \in {"A"} |-> <<"B">>]

AtomsTyp == {"A", "B"}

GrColNames == <<"x", "y", "z", "type">>

\* The coordinates of the rows of type t, in stream order: what readXYZ
\* appends to xyz[t].
RECURSIVE RowsOfType(_, _, _)
RowsOfType(rows, cols, t) ==
    IF rows = <<>> THEN <<>>
    ELSE LET rest == RowsOfType(Tail(rows), cols, t)
         IN  IF Head(rows)[cols[4] + 1] = t
             THEN <<RowXYZ(Head(rows), cols)>> \o rest
             ELSE rest

\* The XYZ map a reader returns with an error.
NilXYZ == [t \in AtomsTyp |-> <<>>]

\* GR.fetchXYZ (and fetchXYZFirst): every one of the n rows is checked
\* against colsLen, the rows of the types of atomsTyp are kept.
GrFetchXYZ(s, p, n, cl, cols) ==
    LET rr == ReadRows(s, p, n, cl, <<>>)
    IN  [pos |-> rr.pos, err |-> rr.err,
         xyz |-> IF rr.err # "nil" THEN NilXYZ
                 ELSE [t \in AtomsTyp |-> RowsOfType(rr.rows, cols, t)]]

\* GR.readCfgFirst.
GrReadCfgFirst(s, p) ==
    LET h  == Header(s, p)
        c  == ReadCols(s, h.pos, GrColNames)
        f  == GrFetchXYZ(s, c.pos, h.atoms, c.colsLen, c.cols)
        e  == IF h.err # "nil" THEN h.err
              ELSE IF c.err # "nil" THEN c.err
              ELSE f.err
    IN  [pos |-> IF h.err # "nil" THEN h.pos ELSE IF c.err # "nil" THEN c.pos ELSE f.pos,
         err |-> e, box |-> h.box, xyz |-> IF e # "nil" THEN NilXYZ ELSE f.xyz,
         atoms |-> h.atoms, colsLen |-> c.colsLen, cols |-> c.cols]

\* GR.readCfg: the header without the atom count, the column-header line
\* (read and dropped), then the rows.
GrReadCfg(s, p, n, cl, cols) ==
    LET h == HeaderWOutAtoms(s, p)
        f == GrFetchXYZ(s, Skip(s, h.pos, 1), n, cl, cols)
    IN  IF h.err # "nil"
        THEN [pos |-> h.pos, err |-> h.err, box |-> h.box, xyz |-> NilXYZ]
        ELSE [pos |-> f.pos, err |-> f.err, box |-> h.box, xyz |-> f.xyz]

\* ----------------------------------------------------- package gr: kernel
\* gr.rmax and gr.dr of the configuration file; bins and rmax2 as gr.New
\* computes them.
RMax == 4

Dr == 1

Bins == RMax \div Dr

RMax2 == RMax * RMax

\* math.Sqrt followed by the conversion to int, on a whole number.
Isqrt(n) == CHOOSE r \in 0..n : r * r <= n /\ (r + 1) * (r + 1) > n

\* math.Round(d / l): halves are rounded away from zero.
RoundDiv(d, l) ==
    IF d >= 0 THEN (2 * d + l) \div (2 * l) ELSE -((2 * (-d) + l) \div (2 * l))

\* distatt - box[k]*math.Round(distatt/box[k]) for a coordinate difference d
\* far below 2^52: nothing is subtracted in a box of 2^52 or more.  A box of
\* length 0 gives NaN, written -1 after squaring (see Dist2).
MinImage(d, l) == IF l.hi > 0 THEN d ELSE d - l.lo * RoundDiv(d, l.lo)

\* The squared minimum-image distance of two atoms; -1 stands for NaN.
Dist2(a, b, box) ==
    IF \E k \in 1..3 : box[k].hi = 0 /\ box[k].lo = 0 THEN -1
    ELSE LET m == [k \in 1..3 |-> MinImage(a[k] - b[k], box[k])]
         IN  m[1] * m[1] + m[2] * m[2] + m[3] * m[3]

\* The histogram cells GR.calc increments for one frame, in loop order: for
\* every pair (at1, at2), source atom xyz1 of type at1 and atom of type at2
\* no further than rmax, the cell [pair, xyz1, int(dist/dr)].
RECURSIVE CellsOfSource(_, _, _, _, _, _)
CellsOfSource(at1, at2, i, a, bs, box) ==
    IF bs = <<>> THEN <<>>
    ELSE LET d2   == Dist2(a, Head(bs), box)
             rest == CellsOfSource(at1, at2, i, a, Tail(bs), box)
         IN  IF d2 # -1 /\ d2 <= RMax2
             THEN <<[at1 |-> at1, at2 |-> at2, row |-> i, bin |-> Isqrt(d2) \div Dr]>> \o rest
             ELSE rest

RECURSIVE CellsOfPair(_, _, _, _, _)
CellsOfPair(at1, at2, i, xyz, box) ==
    IF i >= Len(xyz[at1]) THEN <<>>
    ELSE CellsOfSource(at1, at2, i, xyz[at1][i + 1], xyz[at2], box)
         \o CellsOfPair(at1, at2, i + 1, xyz, box)

GrCells(box, xyz) == CellsOfPair("A", GrAtoms["A"][1], 0, xyz, box)

\* box[0] * box[1] * box[2]
BoxVolume(box) == FMul(FMul(box[1], box[2]), box[3])

\* The histogram g.hstg as GR.Start allocates it: for each pair, one row per
\* atom of type at1 in the first frame, bins columns, all 0.
NewHstg(xyz) == [i \in 1..Len(xyz["A"]) |-> [b \in 1..Bins |-> 0]]

\* Whether g.hstg[pair][row][bin] exists (the increment panics otherwise).
InRange(h, c) == c.row + 1 \in 1..Len(h) /\ c.bin + 1 \in 1..Bins

\* g.hstg[pair][xyz1][index] += 1.
HstgLost(h, c) == h

HstgIncr(h, c) == [h EXCEPT ![c.row + 1][c.bin + 1] = @ + 1]

\* GR.calc run to its end by one thread alone (the first frame): every
\* increment, "panic" replacing the histogram when a cell does not exist.
RECURSIVE ApplyCells(_, _)
ApplyCells(h, cs) ==
    IF cs = <<>> THEN [h |-> h, panic |-> FALSE]
    ELSE IF ~InRange(h, Head(cs)) THEN [h |-> h, panic |-> TRUE]
    ELSE ApplyCells(HstgIncr(h, Head(cs)), Tail(cs))

\* --------------------------------------------------- package volume: read
\* The keys of volume.Sigma (the types kept by the reader); volume.Atoms is
\* the analyte type A, atOther the type B.
SigmaTyp == {"A", "B"}

\* Volume.fetchXYZ: every one of the n rows is checked against colsLen
\* before its type is looked up in Sigma.
VolFetchXYZ(s, p, n, cl, cols) ==
    LET rr == ReadRows(s, p, n, cl, <<>>)
    IN  [pos |-> rr.pos, err |-> rr.err,
         xyz |-> IF rr.err # "nil" THEN NilXYZ
                 ELSE [t \in SigmaTyp |-> RowsOfType(rr.rows, cols, t)]]

\* Volume.readCfgFirst.
VolReadCfgFirst(s, p) ==
    LET h  == Header(s, p)
        c  == ReadCols(s, h.pos, GrColNames)
        f  == VolFetchXYZ(s, c.pos, h.atoms, c.colsLen, c.cols)
        e  == IF h.err # "nil" THEN h.err
              ELSE IF c.err # "nil" THEN c.err
              ELSE f.err
    IN  [pos |-> IF h.err # "nil" THEN h.pos ELSE IF c.err # "nil" THEN c.pos ELSE f.pos,
         err |-> e, box |-> h.box, xyz |-> IF e # "nil" THEN NilXYZ ELSE f.xyz,
         atoms |-> h.atoms, colsLen |-> c.colsLen, cols |-> c.cols]

\* A readCfg that parses the column-header line of its frame again.
VolReadCfgParsed(s, p, n, cl, cols) ==
    LET h == HeaderWOutAtoms(s, p)
        c == ReadCols(s, h.pos, GrColNames)
        f == VolFetchXYZ(s, c.pos, n, c.colsLen, c.cols)
    IN  IF h.err # "nil"
        THEN [pos |-> h.pos, err |-> h.err, box |-> h.box, xyz |-> NilXYZ]
        ELSE [pos |-> f.pos, err |-> f.err, box |-> h.box, xyz |-> f.xyz]

\* Volume.readCfg.
VolReadCfg(s, p, n, cl, cols) ==
    LET h == HeaderWOutAtoms(s, p)
        f == VolFetchXYZ(s, Skip(s, h.pos, 1), n, cl, cols)
    IN  IF h.err # "nil"
        THEN [pos |-> h.pos, err |-> h.err, box |-> h.box, xyz |-> NilXYZ]
        ELSE [pos |-> f.pos, err |-> f.err, box |-> h.box, xyz |-> f.xyz]

\* ------------------------------------------------- package volume: kernel
\* volume.bloc and volume.blocs (the same on the three axes) and volume.sigma
\* of the configuration file.
Bloc == 2

Blocs == 1

Sigma == [t \in SigmaTyp |-> IF t = "A" THEN 2 ELSE 6]

\* int(a / b) for b > 0: the quotient truncated toward zero.
TruncDiv(a, b) == IF a >= 0 THEN a \div b ELSE -((-a) \div b)

\* A cell index brought back into 0..n-1 by one box length.
WrapCell(x, n) == IF x < 0 THEN x + n ELSE IF x >= n THEN x - n ELSE x

\* ptsX, ptsY, ptsZ: on axis k, the cells within Blocs cells of the cell of
\* an analyte atom.
AxisCells(k, box, xyz) ==
    UNION {{WrapCell(x, RoundDiv(box[k].lo, Bloc)) :
               x \in (TruncDiv(xyz["A"][i][k], Bloc) - Blocs)..(TruncDiv(xyz["A"][i][k], Bloc) + Blocs)} :
           i \in 1..Len(xyz["A"])}

\* The centre of a cell: Bloc * lit + Bloc / 2.
Center(lit) == [k \in 1..3 |-> Bloc * lit[k] + Bloc \div 2]

\* The squared minimum-image distances from a cell centre to the atoms of
\* type t (NaN left out: no comparison with it is true).
CellDist2(lit, box, xyz, t) ==
    {Dist2(xyz[t][i], Center(lit), box) : i \in 1..Len(xyz[t])} \ {-1}

\* The smallest member of a non-empty set of numbers.
Least(S) == CHOOSE m \in S : \A n \in S : m <= n

\* The test of the second loop for an atom of the other type at squared
\* distance d2o, distTmp being d2a / sigma2[A]:
\* math.Sqrt(d2o) / Sigma[B] < d2a / sigma2[A].
OtherWins(d2o, d2a) ==
    d2o * (Sigma["A"] * Sigma["A"]) * (Sigma["A"] * Sigma["A"])
        < d2a * d2a * (Sigma["B"] * Sigma["B"])

\* ptsTmp after the two loops over a candidate cell: an analyte atom set
\* distTmp and no atom of the other type came out below it.
IsAnalyte(lit, box, xyz) ==
    /\ CellDist2(lit, box, xyz, "A") # {}
    /\ \A d2o \in CellDist2(lit, box, xyz, "B") :
           ~OtherWins(d2o, Least(CellDist2(lit, box, xyz, "A")))

\* The cells the three nested loops over ptsX, ptsY and ptsZ go through.
Candidates(box, xyz) ==
    AxisCells(1, box, xyz) \X AxisCells(2, box, xyz) \X AxisCells(3, box, xyz)

\* pts: the candidate cells kept as analyte volume.
VolPts(box, xyz) == {lit \in Candidates(box, xyz) : IsAnalyte(lit, box, xyz)}

\* The row Volume.calc prints for frame cfg: the frame index, the frame data
\* its two volumes are computed from and the cells it counts as analyte
\* volume (volAt is their number times the volume of a cell).
VolRow(c, box, xyz) == [cfg |-> c, box |-> box, xyz |-> xyz, pts |-> VolPts(box, xyz)]

\* ------------------------------- packages disttwoatoms, radiusgyration: read
\* The head of readCfgFirst in both packages: three lines, the atom count
\* (string(b)[:len(b)-1] panics on the empty slice of the end of the stream,
\* a failed Atoi is returned), four lines, the column-header line.
FirstHeader(s, p, names) ==
    LET p1 == Skip(s, p, 3)
        b  == LineAt(s, p1)
        a  == IF Len(b) = 1 THEN Atoi(b[1]) ELSE [v |-> 0, err |-> TRUE]
        c  == ReadCols(s, Skip(s, p1, 5), names)
    IN  IF AtEOF(s, p1)
        THEN [pos |-> p1, err |-> "panic", atoms |-> 0, colsLen |-> 0,
              cols |-> [i \in 1..Len(names) |-> 0]]
        ELSE IF a.err
        THEN [pos |-> Skip(s, p1, 1), err |-> "atoi", atoms |-> 0, colsLen |-> 0,
              cols |-> [i \in 1..Len(names) |-> 0]]
        ELSE [pos |-> c.pos, err |-> c.err, atoms |-> a.v, colsLen |-> c.colsLen,
              cols |-> c.cols]

DistColNames == <<"xu", "yu", "zu">>

GyrColNames == <<"xu", "yu", "zu", "type">>

\* DistTwoAtoms.readXYZ: one row, refused when its token count is not colsLen.
DistReadXYZ(s, p, cl, cols) ==
    LET fields == LineAt(s, p)
    IN  [pos |-> Skip(s, p, 1),
         err |-> IF Len(fields) # cl THEN "ncols" ELSE "nil",
         xyz |-> IF Len(fields) # cl THEN <<0, 0, 0>> ELSE RowXYZ(fields, cols)]

\* DistTwoAtoms.fetchXYZ: the rows before Atom1, between the two atoms and
\* after Atom2 are read and dropped; rows Atom1 and Atom2 are decoded.
DistFetchXYZ(s, p, n, cl, cols, a1, a2) ==
    LET r1 == DistReadXYZ(s, Skip(s, p, a1), cl, cols)
        r2 == DistReadXYZ(s, Skip(s, r1.pos, a2 - a1 - 1), cl, cols)
    IN  IF r1.err # "nil"
        THEN [pos |-> r1.pos, err |-> r1.err, xyz1 |-> r1.xyz, xyz2 |-> <<0, 0, 0>>]
        ELSE IF r2.err # "nil"
        THEN [pos |-> r2.pos, err |-> r2.err, xyz1 |-> r1.xyz, xyz2 |-> r2.xyz]
        ELSE [pos |-> Skip(s, r2.pos, n - a2 - 1), err |-> "nil",
              xyz1 |-> r1.xyz, xyz2 |-> r2.xyz]

\* DistTwoAtoms.readCfgFirst.
DistReadCfgFirst(s, p, a1, a2) ==
    LET h == FirstHeader(s, p, DistColNames)
        f == DistFetchXYZ(s, h.pos, h.atoms, h.colsLen, h.cols, a1, a2)
    IN  IF h.err # "nil"
        THEN [pos |-> h.pos, err |-> h.err, xyz1 |-> <<0, 0, 0>>, xyz2 |-> <<0, 0, 0>>,
              atoms |-> h.atoms, colsLen |-> h.colsLen, cols |-> h.cols]
        ELSE [pos |-> f.pos, err |-> f.err, xyz1 |-> f.xyz1, xyz2 |-> f.xyz2,
              atoms |-> h.atoms, colsLen |-> h.colsLen, cols |-> h.cols]

\* DistTwoAtoms.readCfg: nine lines read and dropped, then fetchXYZ.
DistReadCfg(s, p, n, cl, cols, a1, a2) ==
    DistFetchXYZ(s, Skip(s, p, 9), n, cl, cols, a1, a2)

\* RadiusGyration.fetchXYZ: the rows before AtomStart and from AtomEnd on are
\* read and dropped; rows AtomStart..AtomEnd-1 are decoded.
GyrFetchXYZ(s, p, n, cl, cols, a1, a2) ==
    LET rr == ReadRows(s, Skip(s, p, a1), a2 - a1, cl, <<>>)
    IN  IF rr.err # "nil"
        THEN [pos |-> rr.pos, err |-> rr.err, xyz |-> <<>>, types |-> <<>>]
        ELSE [pos   |-> Skip(s, rr.pos, n - a2), err |-> "nil",
              xyz   |-> [i \in 1..Len(rr.rows) |-> RowXYZ(rr.rows[i], cols)],
              types |-> [i \in 1..Len(rr.rows) |-> rr.rows[i][cols[4] + 1]]]

\* RadiusGyration.readCfgFirst.
GyrReadCfgFirst(s, p, a1, a2) ==
    LET h == FirstHeader(s, p, GyrColNames)
        f == GyrFetchXYZ(s, h.pos, h.atoms, h.colsLen, h.cols, a1, a2)
    IN  IF h.err # "nil"
        THEN [pos |-> h.pos, err |-> h.err, xyz |-> <<>>, types |-> <<>>,
              atoms |-> h.atoms, colsLen |-> h.colsLen, cols |-> h.cols]
        ELSE [pos |-> f.pos, err |-> f.err, xyz |-> f.xyz, types |-> f.types,
              atoms |-> h.atoms, colsLen |-> h.colsLen, cols |-> h.cols]

\* RadiusGyration.readCfg.
GyrReadCfg(s, p, n, cl, cols, a1, a2) ==
    GyrFetchXYZ(s, Skip(s, p, 9), n, cl, cols, a1, a2)

\* ---------------------------- packages disttwoatoms, radiusgyration: kernel
\* DistTwoAtoms.result: the row of loop step i, labelled i + CfgStart, with
\* the difference vector and the sum of its squares (dist is its math.Sqrt).
DistResult(i, start, xyz1, xyz2) ==
    LET vec == [k \in 1..3 |-> xyz1[k] - xyz2[k]]
    IN  [cfg |-> i + start, vec |-> vec,
         sq  |-> vec[1] * vec[1] + vec[2] * vec[2] + vec[3] * vec[3]]

\* The keys of radius_gyration.masses.
Masses == {"A", "B"}

\* RadiusGyration.calc returns an error, before it prints anything, when the
\* type of a selected atom has no mass.
GyrCalcErr(types) == \E i \in 1..Len(types) : types[i] \notin Masses

\* The row RadiusGyration.calc prints for loop step i, labelled i + CfgStart,
\* and the frame data its radius is computed from.
GyrRow(i, start, xyz, types) == [cfg |-> i + start, xyz |-> xyz, types |-> types]

\* ----------------------------------------------------------- package nopbc
NoPbcColNames == <<"x", "y", "z", "mol">>

\* no_pbc.size of the configuration file: the first-frame threshold of the
\* molecules named there (the others use half the box).
Size == [m \in {"2"} |-> <<2, 2, 2>>]

\* strconv.AppendFloat(bytes, v, 'g', -1, 64) for a whole number below 10^21:
\* its decimal digits, "-" in front of a negative one.
RECURSIVE Digits(_)
Digits(n) == IF n < 10 THEN NumTok[n + 1] ELSE Digits(n \div 10) \o NumTok[(n % 10) + 1]

AppendFloat(v) == IF v < 0 THEN "-" \o Digits(-v) ELSE Digits(v)

\* NoPBC.write: the fields of the row, those at cols[0], cols[1] and cols[2]
\* replaced by the formatted coordinates (the first case that matches).
Write(fields, c, xyz) ==
    [k \in 1..Len(fields) |->
        IF k - 1 = c[1] THEN AppendFloat(xyz[1])
        ELSE IF k - 1 = c[2] THEN AppendFloat(xyz[2])
        ELSE IF k - 1 = c[3] THEN AppendFloat(xyz[3])
        ELSE fields[k]]

\* The column-header line NoPBC.readCfgFirst writes and keeps in colsBuf: x,
\* y and z renamed xu, yu and zu.
ColsBuf(all) ==
    [k \in 1..Len(all) |->
        IF k <= 2 THEN all[k]
        ELSE IF all[k] = "x" THEN "xu"
        ELSE IF all[k] = "y" THEN "yu"
        ELSE IF all[k] = "z" THEN "zu"
        ELSE all[k]]

\* One axis of a row of the first frame that goes on the molecule of the row
\* before: raw is moved by one box length when the running position of the
\* molecule is further than the threshold (sz2 is twice the threshold).
FirstShift(last, raw, sz2, l) ==
    IF 2 * (last - raw) > sz2 THEN raw + l
    ELSE IF 2 * (last - raw) < -sz2 THEN raw - l
    ELSE raw

\* Twice the threshold of the first frame for molecule m: box2, or Size[m].
FirstSize2(m, box) ==
    [k \in 1..3 |-> IF m \in DOMAIN Size THEN 2 * Size[m][k] ELSE box[k].lo]

\* The rows loop of NoPBC.readCfgFirst from row i on: mol is the molecule of
\* the row before, last its running position, sz2 its doubled threshold.
RECURSIVE NoPbcFirstRows(_, _, _, _, _, _, _, _, _, _, _, _)
NoPbcFirstRows(s, p, n, i, cl, c, box, mol, last, sz2, xyz, rows) ==
    IF i >= n THEN [pos |-> p, err |-> "nil", xyz |-> xyz, rows |-> rows]
    ELSE LET fields == LineAt(s, p)
         IN  IF Len(fields) # cl
             THEN [pos |-> Skip(s, p, 1), err |-> "ncols", xyz |-> xyz, rows |-> rows]
             ELSE LET m    == fields[c[4] + 1]
                      raw  == RowXYZ(fields, c)
                      new  == IF m # mol THEN raw
                              ELSE [k \in 1..3 |-> FirstShift(last[k], raw[k], sz2[k], box[k].lo)]
                      nsz2 == IF m # mol THEN FirstSize2(m, box) ELSE sz2
                  IN  NoPbcFirstRows(s, Skip(s, p, 1), n, i + 1, cl, c, box, m, new, nsz2,
                                     Append(xyz, new), Append(rows, Write(fields, c, new)))

\* NoPBC.readCfgFirst: the header and the column-header line (both copied to
\* the output, the latter renamed), then one output row per atom row.
NoPbcReadCfgFirst(s, p) ==
    LET h  == Header(s, p)
        c  == ReadCols(s, h.pos, NoPbcColNames)
        f  == NoPbcFirstRows(s, c.pos, h.atoms, 0, c.colsLen, c.cols, h.box,
                             "", <<0, 0, 0>>, <<0, 0, 0>>, <<>>, <<>>)
        hd == [k \in 1..(h.pos - p) |-> LineAt(s, p + k - 1)]
    IN  IF h.err # "nil"
        THEN [pos |-> h.pos, err |-> h.err, xyz |-> <<>>, head |-> hd, rows |-> <<>>,
              atoms |-> h.atoms, colsLen |-> 0, cols |-> <<0, 0, 0, 0>>]
        ELSE IF c.err = "cols"
        THEN [pos |-> c.pos, err |-> c.err, xyz |-> <<>>, head |-> hd, rows |-> <<>>,
              atoms |-> h.atoms, colsLen |-> 0, cols |-> <<0, 0, 0, 0>>]
        ELSE IF c.err # "nil"
        THEN [pos |-> c.pos, err |-> c.err, xyz |-> <<>>,
              head |-> Append(hd, ColsBuf(LineAt(s, h.pos))), rows |-> <<>>,
              atoms |-> h.atoms, colsLen |-> c.colsLen, cols |-> c.cols]
        ELSE [pos |-> f.pos, err |-> f.err, xyz |-> f.xyz,
              head |-> Append(hd, ColsBuf(LineAt(s, h.pos))), rows |-> f.rows,
              atoms |-> h.atoms, colsLen |-> c.colsLen, cols |-> c.cols]

\* An unwrap step that never moves a coordinate, and one that moves every
\* coordinate up by one box length.
MoveNever(last, x, l) == 0

MoveAlways(last, x, l) == l

\* One axis of a row of a later frame: the correction carried by the atom is
\* added to the decoded coordinate, the sum is compared with the atom's last
\* position against half the box of the frame and moved by one box length
\* beyond it; the move is added to the correction.
Move(last, x, l) ==
    IF 2 * (last - x) > l THEN l
    ELSE IF 2 * (last - x) < -l THEN -l
    ELSE 0

\* The rows loop of NoPBC.readCfg from row i on.
RECURSIVE NoPbcRows(_, _, _, _, _, _, _, _, _, _)
NoPbcRows(s, p, n, i, cl, c, box, last, cr, rows) ==
    IF i >= n THEN [pos |-> p, err |-> "nil", last |-> last, corr |-> cr, rows |-> rows]
    ELSE LET fields == LineAt(s, p)
         IN  IF Len(fields) # cl
             THEN [pos |-> Skip(s, p, 1), err |-> "ncols", last |-> last, corr |-> cr,
                   rows |-> rows]
             ELSE LET raw == RowXYZ(fields, c)
                      mv  == [k \in 1..3 |->
                                 Move(last[i + 1][k], raw[k] + cr[i + 1][k], box[k].lo)]
                      new == [k \in 1..3 |-> raw[k] + cr[i + 1][k] + mv[k]]
                  IN  NoPbcRows(s, Skip(s, p, 1), n, i + 1, cl, c, box,
                                [last EXCEPT ![i + 1] = new],
                                [cr EXCEPT ![i + 1] = [k \in 1..3 |-> cr[i + 1][k] + mv[k]]],
                                Append(rows, Write(fields, c, new)))

\* One turn of the loop of NoPBC.readCfg: a frame, and whether the stream
\* ends behind it (r.ReadByte returns io.EOF).
NoPbcReadCfg(s, p, n, cl, c, buf, last, cr) ==
    LET h  == HeaderWOutAtoms(s, p)
        f  == NoPbcRows(s, Skip(s, h.pos, 1), n, 0, cl, c, h.box, last, cr, <<>>)
        hd == [k \in 1..(h.pos - p) |-> LineAt(s, p + k - 1)]
    IN  IF h.err # "nil"
        THEN [pos |-> h.pos, err |-> h.err, last |-> last, corr |-> cr, head |-> hd,
              rows |-> <<>>, eof |-> AtEOF(s, h.pos)]
        ELSE [pos |-> f.pos, err |-> f.err, last |-> f.last, corr |-> f.corr,
              head |-> Append(hd, buf), rows |-> f.rows, eof |-> AtEOF(s, f.pos)]

\* ------------------------------------------------------ input trajectories
\* The calculations (the Type of each package).
Calcs == {"gr", "volume", "dist_two_atoms", "radius_gyration", "no_pbc"}

\* The column names a trajectory written for calculation c carries after
\* "ITEM: ATOMS".
ColsOf(c) ==
    IF c = "dist_two_atoms" THEN <<"id", "xu", "yu", "zu">>
    ELSE IF c = "radius_gyration" THEN <<"id", "type", "xu", "yu", "zu">>
    ELSE <<"id", "type", "x", "y", "z">>

\* The atoms of a frame: their types, in stream order.
Tags == <<"A", "A", "B">>

\* What may be wrong with one frame of a trajectory: a row with a token
\* missing (of a selected atom, of an unselected one), a row missing or in
\* excess, an atom type without mass, an atom-count line that is no integer,
\* a column-header line where a second "x" stands for a required name, one
\* where a required name is missing, an atom at distance RMax of another, a
\* coordinate token that is no number, an atom of type B at distance 3 of a
\* cell centre; or the stream ends before that frame ("cut"); the second
\* atom of type B instead of A ("retype"); the three atoms of type A, the
\* second at (4, 4, 0) ("apart").
Defects == {"none", "badsel", "badunsel", "short", "long", "nomass",
            "badcount", "dupcol", "nocol", "far", "badnum", "tie", "cut", "retype",
            "apart"}

\* The column-header names of a frame with defect d.
HeaderCols(c, d) ==
    IF d = "dupcol"
    THEN IF c = "dist_two_atoms" THEN <<"id", "xu", "xu", "yu">>
         ELSE IF c = "radius_gyration" THEN <<"id", "xu", "xu", "yu", "zu">>
         ELSE <<"id", "x", "x", "y", "z">>
    ELSE IF d = "nocol"
    THEN IF c = "dist_two_atoms" THEN <<"id", "xu", "yu", "vz">>
         ELSE IF c = "radius_gyration" THEN <<"id", "kind", "xu", "yu", "zu">>
         ELSE <<"id", "kind", "x", "y", "z">>
    ELSE ColsOf(c)

\* Atom row i (from 0) of frame k.
AtomRow(c, k, i, d) ==
    LET tag == IF d = "nomass" /\ i = 0 THEN "C"
               ELSE IF d = "retype" /\ i = 1 THEN "B"
               ELSE IF d = "apart" THEN "A"
               ELSE IF i < Len(Tags) THEN Tags[i + 1] ELSE "B"
        x   == IF d = "badnum" /\ i = 1 THEN "n/a"
               ELSE IF d \in {"far", "tie"} /\ i = 2 THEN "4"
               ELSE IF i < 2 THEN NumTok[i + 1] ELSE NumTok[3 + (k % 2)]
        row == <<NumTok[i + 2]>>
               \o (IF c = "dist_two_atoms" THEN <<>> ELSE <<tag>>)
               \o (IF d = "tie" /\ i = 2 THEN <<x, "1", "1">>
                   ELSE IF d = "apart" /\ i = 1 THEN <<"4", "4", "0">>
                   ELSE <<x, "0", "0">>)
    IN  IF (d = "badsel" /\ i = 0) \/ (d = "badunsel" /\ i = Len(Tags) - 1)
        THEN SubSeq(row, 1, Len(row) - 1)
        ELSE row

\* The number of atom rows of a frame with defect d.
RowCount(d) == IF d = "short" THEN Len(Tags) - 1
               ELSE IF d = "long" THEN Len(Tags) + 1
               ELSE Len(Tags)

\* The upper box bounds of frame k: 8 on every axis, or a box of volume
\* 2^52 + (k % 3).
BoxHi(k, bx) == IF bx = "big" THEN <<BigTok[(k % 3) + 1], "1", "1">>
                ELSE <<"8", "8", "8">>

\* The lines of frame k of a LAMMPS trajectory.
FrameLines(c, k, d, bx) ==
    << <<"ITEM:", "TIMESTEP">>,
       <<NumTok[k + 1]>>,
       <<"ITEM:", "NUMBER", "OF", "ATOMS">>,
       <<IF d = "badcount" THEN "many" ELSE NumTok[RowCount(d) + 1]>>,
       <<"ITEM:", "BOX", "BOUNDS", "pp", "pp", "pp">>,
       <<"0", BoxHi(k, bx)[1]>>,
       <<"0", BoxHi(k, bx)[2]>>,
       <<"0", BoxHi(k, bx)[3]>>,
       <<"ITEM:", "ATOMS">> \o HeaderCols(c, d) >>
    \o [i \in 1..RowCount(d) |-> AtomRow(c, k, i - 1, d)]

\* A trajectory of MaxFrames frames whose frame at carries defect d, or of
\* the frames before at.
RECURSIVE TrajFrom(_, _, _, _, _)
TrajFrom(c, k, d, at, bx) ==
    IF k >= MaxFrames \/ (d = "cut" /\ k >= at) THEN <<>>
    ELSE FrameLines(c, k, IF k = at THEN d ELSE "none", bx)
         \o TrajFrom(c, k + 1, d, at, bx)

Traj(c, d, at, bx) == TrajFrom(c, 0, d, at, bx)

\* The lines of a frame of a trajectory without defect.
FrameLen == 9 + Len(Tags)

\* ------------------------------------------- input trajectories of no_pbc
\* Frames in a trajectory given to no_pbc.
UnwrapFrames == 5

\* The atoms of a frame: a label and the molecule of each, in stream order.
Elems == <<"C", "H", "O", "H">>

Mols == <<"1", "1", "2", "2">>

\* How the atoms move in a box of length 8: all at rest; at rest with the
\* second atom of each molecule on the other side of the box ("whole") or
\* further than Size from the first ("split"); one atom going up 3 a frame,
\* down 3 a frame, or 4 forth and back ("half"); a molecule of three atoms
\* that spans two faces of the box, its last atom going up 3 after the first
\* frame ("chain"); at rest with the rows of the two molecules in turn
\* ("mixed").
Motions == {"still", "whole", "split", "up", "down", "half", "chain", "mixed"}

\* The molecule of each atom in a trajectory of motion m.
MolsOf(m) ==
    IF m = "chain" THEN <<"1", "1", "1", "2">>
    ELSE IF m = "mixed" THEN <<"1", "2", "1", "2">>
    ELSE Mols

\* The raw x of atom i in frame k when atom who moves.
RawX(m, who, k, i) ==
    IF m = "whole" THEN <<7, 0, 7, 0>>[i + 1]
    ELSE IF m = "split" THEN <<1, 2, 5, 2>>[i + 1]
    ELSE IF m = "chain" THEN (IF i = 2 /\ k > 0 THEN 0 ELSE <<7, 2, 5, 6>>[i + 1])
    ELSE IF m = "mixed" THEN <<7, 5, 0, 2>>[i + 1]
    ELSE IF i # who \/ m = "still" THEN <<1, 2, 5, 6>>[i + 1]
    ELSE IF m = "up" THEN (6 + 3 * k) % 8
    ELSE IF m = "down" THEN (1 + 5 * k) % 8
    ELSE 4 * (k % 2)

\* The column names of a frame of no_pbc with defect d.
UnwrapCols(d) ==
    IF d = "dupcol" THEN <<"element", "mol", "mol", "y", "z">>
    ELSE IF d = "nocol" THEN <<"element", "grp", "x", "y", "z">>
    ELSE <<"element", "mol", "x", "y", "z">>

\* Atom row i (from 0) of frame k.
UnwrapRow(m, who, k, i, d) ==
    LET j   == IF i < Len(Elems) THEN i ELSE Len(Elems) - 1
        x   == IF d = "badnum" /\ i = 1 THEN "n/a" ELSE NumTok[RawX(m, who, k, j) + 1]
        row == <<Elems[j + 1], MolsOf(m)[j + 1], x, "3", "0">>
    IN  IF d = "badsel" /\ i = 0 THEN SubSeq(row, 1, Len(row) - 1) ELSE row

UnwrapRowCount(d) == IF d = "short" THEN Len(Elems) - 1
                     ELSE IF d = "long" THEN Len(Elems) + 1
                     ELSE Len(Elems)

UnwrapFrame(m, who, k, d) ==
    << <<"ITEM:", "TIMESTEP">>,
       <<NumTok[k + 1]>>,
       <<"ITEM:", "NUMBER", "OF", "ATOMS">>,
       <<IF d = "badcount" THEN "many" ELSE NumTok[UnwrapRowCount(d) + 1]>>,
       <<"ITEM:", "BOX", "BOUNDS", "pp", "pp", "pp">>,
       <<"0", "8">>,
       <<"0", "8">>,
       <<"0", "8">>,
       <<"ITEM:", "ATOMS">> \o UnwrapCols(d) >>
    \o [i \in 1..UnwrapRowCount(d) |-> UnwrapRow(m, who, k, i - 1, d)]

\* A trajectory of n frames whose frame at carries defect d.
RECURSIVE UnwrapFrom(_, _, _, _, _, _)
UnwrapFrom(m, who, k, n, d, at) ==
    IF k >= n THEN <<>>
    ELSE UnwrapFrame(m, who, k, IF k = at THEN d ELSE "none")
         \o UnwrapFrom(m, who, k + 1, n, d, at)

\* The trajectories given to no_pbc: every motion of every atom without
\* defect, a trajectory of one frame, and every defect in every frame of the
\* trajectory of atom 0 going up.
UnwrapTrajs ==
    {UnwrapFrom(m, who, 0, UnwrapFrames, "none", 0) :
        m \in Motions, who \in 0..(Len(Elems) - 1)}
    \cup {UnwrapFrom("still", 0, 0, 1, "none", 0)}
    \cup {UnwrapFrom("up", 0, 0, UnwrapFrames, d, at) :
             d \in {"badsel", "badnum", "short", "long", "badcount", "dupcol", "nocol"},
             at \in 0..(UnwrapFrames - 1)}

\* The lines of a frame of such a trajectory without defect.
UnwrapLen == 9 + Len(Elems)

\* ------------------------------------------------------------------- state
VARIABLES
    calc,     \* the calculation that runs (the Type handed to cfg.Launch)
    par,      \* its configuration: CfgStart, CfgEnd, CfgSpacing, NumCPU, Atom1, Atom2
    in,       \* the lines of FileIn
    pos,      \* the bufio.Reader: the next line ReadSlice returns (from 1)
    atoms,    \* the atom count recorded from the first frame
    colsLen,  \* the number of columns recorded from the first frame
    cols,     \* the column bindings recorded from the first frame
    cfg,      \* the shared frame counter (gr, volume) or the loop counter i
    err,      \* the shared error slot g.err / v.err
    mux,      \* the mutex: 0 when free, else the worker that holds it
    wg,       \* the WaitGroup counter
    pc,       \* where each worker of start() stands
    job,      \* the frame each worker decoded and is computing
    hstg,     \* g.hstg for the pair (A, B)
    vol,      \* g.vol
    out,      \* the rows written to FileOut
    ret,      \* what Start returned
    mpc,      \* where Start stands: "start", "run", "returned", "panic"
    reads,    \* history: the frame reads of the workers, in order
    done,     \* history: the frame indices whose numeric work is complete
    lastXYZ,  \* no_pbc: the last unwrapped position of each atom
    corr,     \* no_pbc: the correction each atom carries (corr of readCfg)
    colsBuf,  \* no_pbc: the rewritten column-header line
    Types,    \* cfg: c.Types, the names of the calculations of each step
    Files,    \* cfg: c.Files, the configuration files of each step
    step,     \* cfg: the step Cfg.Start stands at (from 0)
    rtn,      \* cfg: the next index of the go loop over types[1:]
    spc,      \* cfg: where main and Cfg.Start stand
    gos,      \* cfg: where the goroutine of each rtn of the step stands
    swg,      \* cfg: the WaitGroup counter of Cfg.Start
    launches, \* cfg history: the calls of Launch, in order
    logs,     \* cfg: the errors logged
    ends      \* cfg history: the calls of Launch that returned

vars == <<calc, par, in, pos, atoms, colsLen, cols, cfg, err, mux, wg, pc, job,
          hstg, vol, out, ret, mpc, reads, done, lastXYZ, corr, colsBuf,
          Types, Files, step, rtn, spc, gos, swg, launches, logs, ends>>

\* The workers of a run: worker 1 is Start's own call of start(), the others
\* are the goroutines it spawns.
Workers == 1..MaxCPU

Running(w) == w <= par.NumCPU

NoJob == [cfg |-> -1, cells |-> <<>>, box |-> <<>>, xyz |-> NilXYZ]

\* The configurations: CfgStart < CfgEnd (checked by New), frames inside the
\* stream, CfgSpacing for volume only, Atom1 < Atom2 / AtomStart < AtomEnd.
\* no_pbc has none of these fields: it works on the whole stream, from its
\* first frame.
Pars(c) ==
    {[CfgStart |-> a, CfgEnd |-> b, CfgSpacing |-> s, NumCPU |-> n, Atom1 |-> x, Atom2 |-> y] :
        a \in IF c = "no_pbc" THEN {0} ELSE 0..(MaxFrames - 1),
        b \in IF c = "no_pbc" THEN {UnwrapFrames} ELSE 1..MaxFrames,
        s \in IF c = "volume" THEN 0..1 ELSE {0},
        n \in IF c \in {"gr", "volume"} THEN 1..MaxCPU ELSE {1},
        x \in IF c \in {"gr", "volume"} THEN {0} ELSE 0..1,
        y \in IF c \in {"gr", "volume"} THEN {1} ELSE 1..2}

\* The trajectories: one frame at most carries a defect; the boxes of
\* volume 2^52 and more are given to gr only, whose g.vol adds them up.
Trajs(c) ==
    IF c = "no_pbc" THEN UnwrapTrajs
    ELSE {Traj(c, d, at, bx) :
             d \in Defects, at \in 0..(MaxFrames - 1),
             bx \in {"small"}}
         \cup (IF c = "gr" THEN {Traj(c, "none", 0, "big")} ELSE {})

\* ------------------------------------------------ dispatcher configurations
\* The steps of a dispatcher file and the calculations of a step.
MaxSteps == 2

MaxRtn == 3

\* The i-th name of a step; "bogus" is a name Launch does not know.
NameAt(i) == <<"gr", "volume", "no_pbc", "dist_two_atoms", "radius_gyration">>[((i - 1) % 5) + 1]

StepOf(n, u) == [i \in 1..n |-> IF u /\ i = n THEN "bogus" ELSE NameAt(i)]

StepsOf == {StepOf(n, u) : n \in 0..MaxRtn, u \in BOOLEAN}

TypesOf == UNION {[1..k -> StepsOf] : k \in 1..MaxSteps}

\* The configuration file written for position i (from 1) of step s (from 1):
\* every position has a file of its own.
PathOf(s, i) == [step |-> s - 1, routine |-> i - 1]

\* The files written for the types t: one per calculation, or with the last
\* step missing, or with the last file of the last step missing.
FilesOf(t, cut) ==
    LET all == [s \in 1..Len(t) |-> [i \in 1..Len(t[s]) |-> PathOf(s, i)]]
        n   == Len(t)
    IN  IF cut = "step" THEN SubSeq(all, 1, n - 1)
        ELSE IF cut = "file" /\ Len(t[n]) > 0
             THEN [all EXCEPT ![n] = SubSeq(all[n], 1, Len(all[n]) - 1)]
             ELSE all

\* The goroutines a step may have: one per name after the first.
Rtns == 0..(MaxRtn - 2)

\* No dispatcher: the calculation was started on its own.
NoCfg ==
    /\ Types = <<>>
    /\ Files = <<>>
    /\ step = 0
    /\ rtn = 0
    /\ spc = "none"
    /\ gos = [r \in Rtns |-> "none"]
    /\ swg = 0
    /\ launches = <<>>
    /\ logs = <<>>
    /\ ends = {}

\* A calculation before its Start.
Fresh ==
    /\ pos = 1
    /\ atoms = 0
    /\ colsLen = 0
    /\ cols = <<0, 0, 0, 0>>
    /\ cfg = 0
    /\ err = Nil
    /\ mux = 0
    /\ wg = 0
    /\ pc = [w \in Workers |-> "idle"]
    /\ job = [w \in Workers |-> NoJob]
    /\ hstg = <<>>
    /\ vol = F64(0, 0)
    /\ out = <<>>
    /\ ret = Nil
    /\ mpc = "start"
    /\ reads = <<>>
    /\ done = {}
    /\ lastXYZ = <<>>
    /\ corr = <<>>
    /\ colsBuf = <<>>

Init ==
    /\ calc \in Calcs
    /\ par \in {p \in Pars(calc) : p.CfgStart < p.CfgEnd /\ p.Atom1 < p.Atom2}
    /\ in \in Trajs(calc)
    /\ Fresh
    /\ NoCfg

\* Start returning e.
Return(e) == ret' = e /\ mpc' = "returned"

\* A panic on any goroutine ends the process.
Panic == mpc' = "panic" /\ UNCHANGED ret

env == <<calc, par, in>>

schema == <<atoms, colsLen, cols>>

unwrap == <<lastXYZ, corr, colsBuf>>

disp == <<Types, Files, step, rtn, spc, gos, swg, launches, logs, ends>>

\* ------------------------------------------------ GR.Start, Volume.Start
\* The go statements and the wg.Add(1) before each start(): NumCPU workers.
Spawn ==
    /\ pc' = [w \in Workers |-> IF Running(w) THEN "loop" ELSE "idle"]
    /\ wg' = par.NumCPU
    /\ mpc' = "run"
    /\ UNCHANGED ret

\* GR.Start up to the spawning of the workers: the frames before CfgStart are
\* skipped, frame CfgStart is read and binned by the calling thread.
GrStart ==
    /\ mpc = "start" /\ calc = "gr"
    /\ \E s0 \in {ReadCfgNonCvg(in, pos, par.CfgStart)} :
       \E f \in {GrReadCfgFirst(in, s0.pos)} :
       \E a \in {ApplyCells(NewHstg(f.xyz), GrCells(f.box, f.xyz))} :
       LET ok == s0.err = "nil" /\ f.err = "nil"
       IN  /\ pos' = IF s0.err # "nil" THEN s0.pos ELSE f.pos
           /\ atoms' = IF s0.err = "nil" THEN f.atoms ELSE atoms
           /\ colsLen' = IF s0.err = "nil" THEN f.colsLen ELSE colsLen
           /\ cols' = IF s0.err = "nil" THEN f.cols ELSE cols
           /\ hstg' = IF ok THEN a.h ELSE hstg
           /\ vol' = IF ok /\ ~a.panic THEN FAdd(vol, BoxVolume(f.box)) ELSE vol
           /\ cfg' = IF ok /\ ~a.panic THEN par.CfgStart ELSE cfg
           /\ done' = IF ok /\ ~a.panic THEN {par.CfgStart} ELSE done
           /\ reads' = IF s0.err = "nil"
                       THEN <<[w |-> 0, cfg |-> par.CfgStart, at |-> s0.pos, ok |-> f.err = "nil"]>>
                       ELSE reads
           /\ IF s0.err = "panic" THEN Panic /\ UNCHANGED <<pc, wg>>
              ELSE IF s0.err # "nil"
                   THEN Return(Errorf("ReadCfgNonCvg", -1, s0.err)) /\ UNCHANGED <<pc, wg>>
              ELSE IF f.err # "nil"
                   THEN Return(Errorf("readCfgFirst", -1, f.err)) /\ UNCHANGED <<pc, wg>>
              ELSE IF a.panic THEN Panic /\ UNCHANGED <<pc, wg>>
              ELSE Spawn
    /\ UNCHANGED <<env, disp, unwrap, err, mux, job, out>>

\* Volume.Start up to the spawning of the workers: the row of frame CfgStart
\* is written by the calling thread.
VolStart ==
    /\ mpc = "start" /\ calc = "volume"
    /\ \E s0 \in {ReadCfgNonCvg(in, pos, par.CfgStart)} :
       \E f \in {VolReadCfgFirst(in, s0.pos)} :
       LET ok == s0.err = "nil" /\ f.err = "nil"
       IN  /\ pos' = IF s0.err # "nil" THEN s0.pos ELSE f.pos
           /\ atoms' = IF s0.err = "nil" THEN f.atoms ELSE atoms
           /\ colsLen' = IF s0.err = "nil" THEN f.colsLen ELSE colsLen
           /\ cols' = IF s0.err = "nil" THEN f.cols ELSE cols
           /\ out' = IF ok THEN Append(out, VolRow(par.CfgStart, f.box, f.xyz)) ELSE out
           /\ cfg' = IF ok THEN par.CfgStart ELSE cfg
           /\ done' = IF ok THEN {par.CfgStart} ELSE done
           /\ reads' = IF s0.err = "nil"
                       THEN <<[w |-> 0, cfg |-> par.CfgStart, at |-> s0.pos, ok |-> f.err = "nil"]>>
                       ELSE reads
           /\ IF s0.err = "panic" THEN Panic /\ UNCHANGED <<pc, wg>>
              ELSE IF s0.err # "nil"
                   THEN Return(Errorf("ReadCfgNonCvg", -1, s0.err)) /\ UNCHANGED <<pc, wg>>
              ELSE IF f.err # "nil"
                   THEN Return(Errorf("readCfgFirst", -1, f.err)) /\ UNCHANGED <<pc, wg>>
              ELSE Spawn
    /\ UNCHANGED <<env, disp, unwrap, err, mux, job, hstg, vol>>

\* ------------------------------------------------- GR.start, Volume.start
\* The loop's exit test, taken with the lock held and the counter advanced.
StopAtEndOnly(c, e) == c >= par.CfgEnd

Stop(c, e) == c >= par.CfgEnd \/ e # Nil

\* if g.err == nil { g.err = ... }
Record(old, new) == IF old = Nil THEN new ELSE old

\* mux.Lock() returns: the mutex is free.
MuxIgnored == TRUE

MuxFree == mux = 0

\* g.cfg++ in GR.start, v.cfg += v.CfgSpacing + 1 in Volume.start.
AdvanceByOne(c) == c + 1

Advance(c) == c + (IF calc = "volume" THEN par.CfgSpacing + 1 ELSE 1)

\* mux.Lock(), the advance of the counter and the exit test.
Lock(w) ==
    /\ mpc = "run" /\ Running(w) /\ pc[w] = "loop" /\ MuxFree
    /\ mux' = w
    /\ cfg' = Advance(cfg)
    /\ pc' = [pc EXCEPT ![w] = IF Stop(cfg', err) THEN "exit" ELSE "read"]
    /\ UNCHANGED <<env, disp, unwrap, schema, pos, err, wg, job, hstg, vol, out, ret, mpc, reads, done>>

\* GR.start: readCfg with the lock held, then Unlock, or the error recorded
\* and the loop left with the lock held.
GrRead(w) ==
    /\ mpc = "run" /\ calc = "gr" /\ pc[w] = "read"
    /\ \E r \in {GrReadCfg(in, pos, atoms, colsLen, cols)} :
           /\ pos' = r.pos
           /\ reads' = Append(reads, [w |-> w, cfg |-> cfg, at |-> pos, ok |-> r.err = "nil"])
           /\ IF r.err # "nil"
              THEN /\ err' = Record(err, Errorf("readCfg", cfg, r.err))
                   /\ pc' = [pc EXCEPT ![w] = "exit"]
                   /\ UNCHANGED <<mux, job>>
              ELSE /\ mux' = 0
                   /\ job' = [job EXCEPT ![w] = [cfg |-> cfg, cells |-> GrCells(r.box, r.xyz),
                                                 box |-> r.box, xyz |-> r.xyz]]
                   /\ pc' = [pc EXCEPT ![w] = "calc"]
                   /\ UNCHANGED err
    /\ UNCHANGED <<env, disp, unwrap, schema, cfg, wg, hstg, vol, out, ret, mpc, done>>

\* Volume.start: the CfgSpacing frames in between are skipped and the frame
\* is read, all with the lock held.
VolRead(w) ==
    /\ mpc = "run" /\ calc = "volume" /\ pc[w] = "read"
    /\ \E s \in {ReadCfgNonCvg(in, pos, par.CfgSpacing)} :
       \E r \in {VolReadCfg(in, s.pos, atoms, colsLen, cols)} :
           /\ pos' = IF s.err # "nil" THEN s.pos ELSE r.pos
           /\ reads' = IF s.err # "nil" THEN reads
                       ELSE Append(reads, [w |-> w, cfg |-> cfg, at |-> s.pos, ok |-> r.err = "nil"])
           /\ IF s.err = "panic"
              THEN /\ Panic
                   /\ UNCHANGED <<err, pc, mux, job>>
              ELSE IF s.err # "nil"
              THEN /\ err' = Record(err, Errorf("ReadCfgNonCvg", cfg, s.err))
                   /\ pc' = [pc EXCEPT ![w] = "exit"]
                   /\ UNCHANGED <<mux, job, ret, mpc>>
              ELSE IF r.err # "nil"
              THEN /\ err' = Record(err, Errorf("readCfg", cfg, r.err))
                   /\ pc' = [pc EXCEPT ![w] = "exit"]
                   /\ UNCHANGED <<mux, job, ret, mpc>>
              ELSE /\ mux' = 0
                   /\ job' = [job EXCEPT ![w] = [cfg |-> cfg, cells |-> <<>>,
                                                 box |-> r.box, xyz |-> r.xyz]]
                   /\ pc' = [pc EXCEPT ![w] = "calc"]
                   /\ UNCHANGED <<err, ret, mpc>>
    /\ UNCHANGED <<env, disp, unwrap, schema, cfg, wg, hstg, vol, out, done>>

\* GR.calc, one increment: Lock, g.hstg[pair][xyz1][index] += 1, Unlock.
\* A cell that does not exist panics.
GrIncr(w) ==
    /\ mpc = "run" /\ calc = "gr" /\ pc[w] = "calc" /\ MuxFree
    /\ job[w].cells # <<>>
    /\ IF InRange(hstg, Head(job[w].cells))
       THEN /\ hstg' = HstgIncr(hstg, Head(job[w].cells))
            /\ job' = [job EXCEPT ![w].cells = Tail(@)]
            /\ UNCHANGED <<ret, mpc>>
       ELSE /\ Panic
            /\ UNCHANGED <<hstg, job>>
    /\ UNCHANGED <<env, disp, unwrap, schema, pos, cfg, err, mux, wg, pc, vol, out, reads, done>>

\* GR.calc, its end: Lock, g.vol += box[0]*box[1]*box[2], Unlock; the worker
\* goes back to the head of its loop.
GrAddVol(w) ==
    /\ mpc = "run" /\ calc = "gr" /\ pc[w] = "calc" /\ MuxFree
    /\ job[w].cells = <<>>
    /\ vol' = FAdd(vol, BoxVolume(job[w].box))
    /\ done' = done \cup {job[w].cfg}
    /\ job' = [job EXCEPT ![w] = NoJob]
    /\ pc' = [pc EXCEPT ![w] = "loop"]
    /\ UNCHANGED <<env, disp, unwrap, schema, pos, cfg, err, mux, wg, hstg, out, ret, mpc, reads>>

\* Volume.calc: the row of the frame is written, without the lock.
VolCalc(w) ==
    /\ mpc = "run" /\ calc = "volume" /\ pc[w] = "calc"
    /\ out' = Append(out, VolRow(job[w].cfg, job[w].box, job[w].xyz))
    /\ done' = done \cup {job[w].cfg}
    /\ job' = [job EXCEPT ![w] = NoJob]
    /\ pc' = [pc EXCEPT ![w] = "loop"]
    /\ UNCHANGED <<env, disp, unwrap, schema, pos, cfg, err, mux, wg, hstg, vol, ret, mpc, reads>>

\* After the loop: mux.Unlock() and wg.Done().
Exit(w) ==
    /\ mpc = "run" /\ pc[w] = "exit"
    /\ mux' = 0
    /\ wg' = wg - 1
    /\ pc' = [pc EXCEPT ![w] = "done"]
    /\ UNCHANGED <<env, disp, unwrap, schema, pos, cfg, err, job, hstg, vol, out, ret, mpc, reads, done>>

\* wg.Wait() returns.
WaitNot == TRUE

WaitReady == wg = 0

\* The error Start hands to its caller once the workers are gone.
StartErrNone(e) == Nil

StartErr(e) == e

\* The table GR.write prints: the counts, the volume sum and the divisor
\* CfgEnd - CfgStart they are normalised by.
GrTableInclusive == [hstg |-> hstg, vol |-> vol, nbCfg |-> par.CfgEnd - par.CfgStart + 1]

GrTable == [hstg |-> hstg, vol |-> vol, nbCfg |-> par.CfgEnd - par.CfgStart]

\* The end of GR.Start and Volume.Start: the caller's own start() is over,
\* wg.Wait() returns, and the recorded error is returned; GR.Start writes
\* its table only when there is none.
Wait ==
    /\ mpc = "run" /\ calc \in {"gr", "volume"} /\ pc[1] = "done" /\ WaitReady
    /\ Return(StartErr(err))
    /\ out' = IF calc = "gr" /\ err = Nil THEN Append(out, GrTable) ELSE out
    /\ UNCHANGED <<env, disp, unwrap, schema, pos, cfg, err, mux, wg, pc, job, hstg, vol, reads, done>>

\* ------------------------------ DistTwoAtoms.Start, RadiusGyration.Start
\* DistTwoAtoms.Start up to its loop: the frames before CfgStart are skipped,
\* frame CfgStart is read and its row written; the loop starts at i = 1.
DistStart ==
    /\ mpc = "start" /\ calc = "dist_two_atoms"
    /\ \E s0 \in {ReadCfgNonCvg(in, pos, par.CfgStart)} :
       \E f \in {DistReadCfgFirst(in, s0.pos, par.Atom1, par.Atom2)} :
       LET ok == s0.err = "nil" /\ f.err = "nil"
       IN  /\ pos' = IF s0.err # "nil" THEN s0.pos ELSE f.pos
           /\ atoms' = IF s0.err = "nil" THEN f.atoms ELSE atoms
           /\ colsLen' = IF s0.err = "nil" THEN f.colsLen ELSE colsLen
           /\ cols' = IF s0.err = "nil" THEN f.cols ELSE cols
           /\ out' = IF ok THEN Append(out, DistResult(0, par.CfgStart, f.xyz1, f.xyz2))
                     ELSE out
           /\ cfg' = IF ok THEN 1 ELSE cfg
           /\ done' = IF ok THEN {par.CfgStart} ELSE done
           /\ reads' = IF s0.err = "nil"
                       THEN <<[w |-> 0, cfg |-> par.CfgStart, at |-> s0.pos, ok |-> f.err = "nil"]>>
                       ELSE reads
           /\ IF s0.err = "panic" \/ (s0.err = "nil" /\ f.err = "panic")
              THEN Panic
              ELSE IF s0.err # "nil" THEN Return(Errorf("ReadCfgNonCvg", -1, s0.err))
              ELSE IF f.err # "nil" THEN Return(Errorf("readCfgFirst", -1, f.err))
              ELSE mpc' = "run" /\ UNCHANGED ret
    /\ UNCHANGED <<env, disp, unwrap, err, mux, wg, pc, job, hstg, vol>>

\* One turn of the loop of DistTwoAtoms.Start: readCfg and result for step i,
\* the error returned with the loop's own i, or the return after the loop.
DistLoop ==
    /\ mpc = "run" /\ calc = "dist_two_atoms"
    /\ IF cfg <= par.CfgEnd - par.CfgStart - 1
       THEN \E r \in {DistReadCfg(in, pos, atoms, colsLen, cols, par.Atom1, par.Atom2)} :
            /\ pos' = r.pos
            /\ reads' = Append(reads, [w |-> 0, cfg |-> cfg + par.CfgStart, at |-> pos,
                                       ok |-> r.err = "nil"])
            /\ IF r.err # "nil"
               THEN /\ Return(Errorf("readCfg", cfg, r.err))
                    /\ UNCHANGED <<out, cfg, done>>
               ELSE /\ out' = Append(out, DistResult(cfg, par.CfgStart, r.xyz1, r.xyz2))
                    /\ cfg' = cfg + 1
                    /\ done' = done \cup {cfg + par.CfgStart}
                    /\ UNCHANGED <<ret, mpc>>
       ELSE /\ Return(Nil)
            /\ UNCHANGED <<pos, reads, out, cfg, done>>
    /\ UNCHANGED <<env, disp, unwrap, schema, err, mux, wg, pc, job, hstg, vol>>

\* RadiusGyration.Start up to its loop.  The error calc returns is dropped:
\* no row is written for a frame with an atom type without mass.
GyrStart ==
    /\ mpc = "start" /\ calc = "radius_gyration"
    /\ \E s0 \in {ReadCfgNonCvg(in, pos, par.CfgStart)} :
       \E f \in {GyrReadCfgFirst(in, s0.pos, par.Atom1, par.Atom2)} :
       LET ok == s0.err = "nil" /\ f.err = "nil"
       IN  /\ pos' = IF s0.err # "nil" THEN s0.pos ELSE f.pos
           /\ atoms' = IF s0.err = "nil" THEN f.atoms ELSE atoms
           /\ colsLen' = IF s0.err = "nil" THEN f.colsLen ELSE colsLen
           /\ cols' = IF s0.err = "nil" THEN f.cols ELSE cols
           /\ out' = IF ok /\ ~GyrCalcErr(f.types)
                     THEN Append(out, GyrRow(0, par.CfgStart, f.xyz, f.types))
                     ELSE out
           /\ cfg' = IF ok THEN 1 ELSE cfg
           /\ done' = IF ok /\ ~GyrCalcErr(f.types) THEN {par.CfgStart} ELSE done
           /\ reads' = IF s0.err = "nil"
                       THEN <<[w |-> 0, cfg |-> par.CfgStart, at |-> s0.pos, ok |-> f.err = "nil"]>>
                       ELSE reads
           /\ IF s0.err = "panic" \/ (s0.err = "nil" /\ f.err = "panic")
              THEN Panic
              ELSE IF s0.err # "nil" THEN Return(Errorf("ReadCfgNonCvg", -1, s0.err))
              ELSE IF f.err # "nil" THEN Return(Errorf("readCfgFirst", -1, f.err))
              ELSE mpc' = "run" /\ UNCHANGED ret
    /\ UNCHANGED <<env, disp, unwrap, err, mux, wg, pc, job, hstg, vol>>

\* One turn of the loop of RadiusGyration.Start.
GyrLoop ==
    /\ mpc = "run" /\ calc = "radius_gyration"
    /\ IF cfg < par.CfgEnd - par.CfgStart
       THEN \E r \in {GyrReadCfg(in, pos, atoms, colsLen, cols, par.Atom1, par.Atom2)} :
            /\ pos' = r.pos
            /\ reads' = Append(reads, [w |-> 0, cfg |-> cfg + par.CfgStart, at |-> pos,
                                       ok |-> r.err = "nil"])
            /\ IF r.err # "nil"
               THEN /\ Return(Errorf("readCfg", cfg, r.err))
                    /\ UNCHANGED <<out, cfg, done>>
               ELSE /\ out' = IF GyrCalcErr(r.types) THEN out
                              ELSE Append(out, GyrRow(cfg, par.CfgStart, r.xyz, r.types))
                    /\ cfg' = cfg + 1
                    /\ done' = IF GyrCalcErr(r.types) THEN done
                               ELSE done \cup {cfg + par.CfgStart}
                    /\ UNCHANGED <<ret, mpc>>
       ELSE /\ Return(Nil)
            /\ UNCHANGED <<pos, reads, out, cfg, done>>
    /\ UNCHANGED <<env, disp, unwrap, schema, err, mux, wg, pc, job, hstg, vol>>

\* ------------------------------------------------------------ NoPBC.Start
\* NoPBC.Start up to the call of readCfg: the first frame is read, its lines
\* and its rows, each molecule made whole, are written; readCfg starts with
\* a correction of 0 for every atom.
NoPbcStart ==
    /\ mpc = "start" /\ calc = "no_pbc"
    /\ \E f \in {NoPbcReadCfgFirst(in, pos)} :
           /\ pos' = f.pos
           /\ atoms' = f.atoms
           /\ colsLen' = f.colsLen
           /\ cols' = f.cols
           /\ colsBuf' = IF f.err \in {"box", "cols"} THEN colsBuf ELSE f.head[Len(f.head)]
           /\ lastXYZ' = IF f.err = "nil" THEN f.xyz ELSE lastXYZ
           /\ corr' = IF f.err = "nil" THEN [i \in 1..f.atoms |-> <<0, 0, 0>>] ELSE corr
           /\ out' = Append(out, [cfg |-> 0, head |-> f.head, rows |-> f.rows])
           /\ reads' = <<[w |-> 0, cfg |-> 0, at |-> pos, ok |-> f.err = "nil"]>>
           /\ done' = IF f.err = "nil" THEN {0} ELSE done
           /\ IF f.err # "nil" THEN Return(Errorf("readCfgFirst", -1, f.err))
              ELSE mpc' = "run" /\ UNCHANGED ret
    /\ UNCHANGED <<env, disp, cfg, err, mux, wg, pc, job, hstg, vol>>

\* One turn of the loop of NoPBC.readCfg: the next frame is read and written
\* unwrapped; the loop is left at the end of the stream or with an error.
NoPbcLoop ==
    /\ mpc = "run" /\ calc = "no_pbc"
    /\ \E r \in {NoPbcReadCfg(in, pos, atoms, colsLen, cols, colsBuf, lastXYZ, corr)} :
           /\ pos' = r.pos
           /\ lastXYZ' = r.last
           /\ corr' = r.corr
           /\ out' = Append(out, [cfg |-> Len(reads), head |-> r.head, rows |-> r.rows])
           /\ reads' = Append(reads, [w |-> 0, cfg |-> Len(reads), at |-> pos,
                                      ok |-> r.err = "nil"])
           /\ done' = IF r.err = "nil" THEN done \cup {Len(reads)} ELSE done
           /\ IF r.err # "nil" THEN Return(Errorf("readCfg", -1, r.err))
              ELSE IF r.eof THEN Return(Nil)
              ELSE UNCHANGED <<ret, mpc>>
    /\ UNCHANGED <<env, disp, schema, colsBuf, cfg, err, mux, wg, pc, job, hstg, vol>>

\* ------------------------------------------------------------- package cfg
\* What Launch(name, path) returns: an error for a name it does not know,
\* else the error of the calculation's New or Start, or nil; or it does not
\* return, when the calculation panics and the process ends.
Outcomes(name) == IF name \in Calcs THEN {"nil", "failed", "panic"} ELSE {"exist"}

\* A dispatcher that logs nothing.
LoggedNone(e, r) == logs

\* log.Println of the error of a Launch, if there is one.
Logged(e, r) == IF e = "nil" THEN logs ELSE Append(logs, [step |-> step, routine |-> r, cause |-> e])

\* The calculations themselves are not part of the dispatcher's steps.
calculation == <<env, unwrap, schema, pos, cfg, err, mux, wg, pc, job, hstg, vol, out, ret, mpc,
                 reads, done>>

\* cfg.New after the file is decoded: Files and Types have the same number
\* of steps, and every step as many files as types; main stops on an error.
CfgNew ==
    /\ spc = "new"
    /\ spc' = IF \/ Len(Files) # Len(Types)
                 \/ \E k \in 1..Len(Files) : Len(Files[k]) # Len(Types[k])
              THEN "failed"
              ELSE "range"
    /\ UNCHANGED <<calculation, Types, Files, step, rtn, gos, swg, launches, logs, ends>>

\* Cfg.Start at the head of `for step, types := range c.Types`: the end of
\* the range returns, an empty step is passed over, a step of one name goes
\* to the Launch of the calling thread, a longer one to the go loop.
CfgRange ==
    /\ spc = "range"
    /\ IF step >= Len(Types)
       THEN spc' = "returned" /\ UNCHANGED <<step, rtn>>
       ELSE IF Len(Types[step + 1]) = 0
            THEN step' = step + 1 /\ UNCHANGED <<spc, rtn>>
            ELSE /\ spc' = IF Len(Types[step + 1]) > 1 THEN "go" ELSE "main"
                 /\ rtn' = 0
                 /\ UNCHANGED step
    /\ UNCHANGED <<calculation, Types, Files, gos, swg, launches, logs, ends>>

\* One turn of `for rtn, name := range types[1:]`: wg.Add(1) and the go
\* statement; after the last name the calling thread goes to its Launch.
CfgGo ==
    /\ spc = "go"
    /\ swg' = swg + 1
    /\ gos' = [gos EXCEPT ![rtn] = "ready"]
    /\ rtn' = rtn + 1
    /\ spc' = IF rtn + 1 < Len(Types[step + 1]) - 1 THEN "go" ELSE "main"
    /\ UNCHANGED <<calculation, Types, Files, step, launches, logs, ends>>

\* The goroutine of index r calls Launch(name, c.Files[step][rtn]) with
\* name = types[1:][rtn].
GoLaunch(r) ==
    /\ spc # "panic"
    /\ gos[r] = "ready"
    /\ gos' = [gos EXCEPT ![r] = "run"]
    /\ launches' = Append(launches, [step |-> step, idx |-> r + 1, go |-> TRUE,
                                      name |-> Types[step + 1][r + 2],
                                      path |-> Files[step + 1][r + 1]])
    /\ UNCHANGED <<calculation, Types, Files, step, rtn, spc, swg, logs, ends>>

\* The Launch of the goroutine of index r returns: the error is logged and
\* wg.Done() is called.
GoDone(r) ==
    /\ spc # "panic"
    /\ gos[r] = "run"
    /\ \E e \in Outcomes(Types[step + 1][r + 2]) :
           IF e = "panic"
           THEN spc' = "panic" /\ UNCHANGED <<logs, ends, swg, gos>>
           ELSE /\ logs' = Logged(e, r)
                /\ ends' = ends \cup {[step |-> step, idx |-> r + 1, e |-> e]}
                /\ swg' = swg - 1
                /\ gos' = [gos EXCEPT ![r] = "done"]
                /\ UNCHANGED spc
    /\ UNCHANGED <<calculation, Types, Files, step, rtn, launches>>

\* The calling thread calls Launch(types[0], c.Files[step][0]).
MainLaunch ==
    /\ spc = "main"
    /\ spc' = "launch"
    /\ launches' = Append(launches, [step |-> step, idx |-> 0, go |-> FALSE,
                                      name |-> Types[step + 1][1],
                                      path |-> Files[step + 1][1]])
    /\ UNCHANGED <<calculation, Types, Files, step, rtn, gos, swg, logs, ends>>

\* The Launch of the calling thread returns: the error is logged.
MainDone ==
    /\ spc = "launch"
    /\ \E e \in Outcomes(Types[step + 1][1]) :
           IF e = "panic"
           THEN spc' = "panic" /\ UNCHANGED <<logs, ends>>
           ELSE /\ logs' = Logged(e, 0)
                /\ ends' = ends \cup {[step |-> step, idx |-> 0, e |-> e]}
                /\ spc' = "wait"
    /\ UNCHANGED <<calculation, Types, Files, step, rtn, gos, swg, launches>>

\* wg.Wait() returns when the counter is 0; the range goes to the next step.
CfgWait ==
    /\ spc = "wait"
    /\ swg = 0
    /\ step' = step + 1
    /\ gos' = [r \in Rtns |-> "none"]
    /\ spc' = "range"
    /\ UNCHANGED <<calculation, Types, Files, rtn, swg, launches, logs, ends>>

\* main: the dispatcher file is decoded, no calculation has started.
CfgInit ==
    /\ Types \in TypesOf
    /\ \E cut \in {"none", "step", "file"} : Files = FilesOf(Types, cut)
    /\ step = 0
    /\ rtn = 0
    /\ spc = "new"
    /\ gos = [r \in Rtns |-> "none"]
    /\ swg = 0
    /\ launches = <<>>
    /\ logs = <<>>
    /\ ends = {}
    /\ calc = "none"
    /\ par = <<>>
    /\ in = <<>>
    /\ Fresh

CfgNext ==
    \/ CfgNew
    \/ CfgRange
    \/ CfgGo
    \/ MainLaunch
    \/ MainDone
    \/ CfgWait
    \/ \E r \in Rtns : GoLaunch(r)
    \/ \E r \in Rtns : GoDone(r)

CfgSpec == CfgInit /\ [][CfgNext]_vars

\* ------------------------------------------------------------ specification
Next ==
    \/ GrStart
    \/ VolStart
    \/ DistStart
    \/ DistLoop
    \/ GyrStart
    \/ GyrLoop
    \/ NoPbcStart
    \/ NoPbcLoop
    \/ \E w \in Workers : Lock(w)
    \/ \E w \in Workers : GrRead(w)
    \/ \E w \in Workers : VolRead(w)
    \/ \E w \in Workers : GrIncr(w)
    \/ \E w \in Workers : GrAddVol(w)
    \/ \E w \in Workers : VolCalc(w)
    \/ \E w \in Workers : Exit(w)
    \/ Wait

Spec == Init /\ [][Next]_vars

\* ------------------------------------------------------- what runs are about
\* The run is one of the two worker pipelines.
Pipeline == calc \in {"gr", "volume"}

\* The distance of the frame indices a run works on.
Stride == IF calc = "volume" THEN par.CfgSpacing + 1 ELSE 1

\* The first lines of the frames of any stream, and their number.
Starts == {p \in 1..Len(in) : in[p] = <<"ITEM:", "TIMESTEP">>}

Frames == Cardinality(Starts)

\* The frame indices the run works on.
ReadFrames ==
    {k \in par.CfgStart..(Min(par.CfgEnd, Frames) - 1) : (k - par.CfgStart) % Stride = 0}

\* Every frame of the stream has Len(Tags) atom rows and says so in its
\* atom-count line; frame k then starts at line FrameAt(k).
Uniform ==
    /\ Len(in) = MaxFrames * FrameLen
    /\ \A k \in 0..(MaxFrames - 1) : in[k * FrameLen + 4] = <<NumTok[Len(Tags) + 1]>>

FrameAt(k) == k * FrameLen + 1

\* The atom rows of frame k of a uniform stream whose token count is not the
\* number of column names of the first column-header line.
BadRows(k) == {i \in 0..(Len(Tags) - 1) : Len(in[FrameAt(k) + 9 + i]) # Len(in[9]) - 2}

\* The first line of frame k of any stream, and the number of atom rows the
\* frame carries.
StartOf(k) ==
    LET S == Starts
    IN  CHOOSE p \in S : Cardinality({q \in S : q < p}) = k

RowsIn(k) == (IF k = Frames - 1 THEN Len(in) + 1 ELSE StartOf(k + 1)) - StartOf(k) - 9

\* The reads that decoded their frame, and the indices of those frames.
OkReads == SelectSeq(reads, LAMBDA r : r.ok)

OkFrames == {reads[i].cfg : i \in {j \in 1..Len(reads) : reads[j].ok}}

\* The frame a read of the RDF pipeline decoded, decoded from the same lines.
GrFrame(r) == IF r.w = 0 THEN GrReadCfgFirst(in, r.at)
              ELSE GrReadCfg(in, r.at, atoms, colsLen, cols)

\* The cells of the frames of a sequence of reads, frame after frame.
RECURSIVE CellsOfReads(_)
CellsOfReads(rs) ==
    IF rs = <<>> THEN <<>>
    ELSE GrCells(GrFrame(Head(rs)).box, GrFrame(Head(rs)).xyz) \o CellsOfReads(Tail(rs))

\* The histogram of n rows that counts each cell of cs once.
Counts(n, cs) ==
    [i \in 1..n |-> [b \in 1..Bins |->
        Cardinality({j \in 1..Len(cs) : cs[j].row + 1 = i /\ cs[j].bin + 1 = b})]]

\* The float64 sums acc + (the box volumes of the reads S), in every order.
RECURSIVE VolSums(_, _)
VolSums(acc, S) ==
    IF S = {} THEN {acc}
    ELSE UNION {VolSums(FAdd(acc, BoxVolume(GrFrame(reads[i]).box)), S \ {i}) : i \in S}

\* The float64 sum of the box volumes of the reads i..Len(reads), in frame
\* order: what one worker alone computes.
RECURSIVE VolInOrder(_, _)
VolInOrder(acc, i) ==
    IF i > Len(reads) THEN acc
    ELSE VolInOrder(FAdd(acc, BoxVolume(GrFrame(reads[i]).box)), i + 1)

\* ------------------------------------------------------------------ claims
\* C1: in the RDF and volume pipelines, whatever the number of workers and
\* the interleaving, the i-th read off the stream is the read of frame index
\* CfgStart + (i-1) * stride, below CfgEnd: the indices read are strictly
\* increasing, none is read twice and none is skipped; on a stream of frames
\* of equal length the read of index k starts at the first line of frame k;
\* and a run that returns without error has read every index of its range.
C1_ReadOrder ==
    Pipeline =>
        /\ \A i \in 1..Len(reads) :
               /\ reads[i].cfg = par.CfgStart + (i - 1) * Stride
               /\ reads[i].cfg < par.CfgEnd
               /\ Uniform => reads[i].at = FrameAt(reads[i].cfg)
        /\ (mpc = "returned" /\ ret = Nil) =>
               {reads[i].cfg : i \in 1..Len(reads)} = ReadFrames

\* C1 witness: a run of two workers returned after both of them read frames.
C1_Witness ==
    /\ Pipeline /\ mpc = "returned" /\ ret = Nil /\ par.NumCPU = 2
    /\ Len(reads) = 3
    /\ reads[2].w # reads[3].w

\* C2: the shared error slot, once set, never changes (it is set at most
\* once and no later error overwrites it), and Start of a pipeline returns
\* exactly the error in the slot.
C2_FirstFailureWins ==
    /\ [](Pipeline /\ mpc = "returned" /\ err # Nil => ret = err)
    /\ [][err # Nil => err' = err]_vars

\* C2 witness: a run of two workers returned the error recorded for a frame
\* after the first.
C2_Witness ==
    /\ Pipeline /\ mpc = "returned" /\ par.NumCPU = 2
    /\ err # Nil /\ ret = err /\ err.step > par.CfgStart

\* C3: once the error slot is set no line is read off the stream and no
\* worker takes up a new frame; and when Start returns, every frame that was
\* decoded has had its numeric work completed and no worker holds a frame.
C3_ErrorLatch ==
    /\ [][err # Nil =>
            /\ pos' = pos
            /\ reads' = reads
            /\ \A w \in Workers : job'[w].cfg \in {job[w].cfg, -1}]_vars
    /\ [](Pipeline /\ mpc = "returned" =>
            /\ done = OkFrames
            /\ \A w \in Workers : job[w] = NoJob)

\* C3 witness: the error slot is set while another worker is still computing
\* the frame it decoded before.
C3_Witness ==
    /\ Pipeline /\ mpc = "run" /\ err # Nil
    /\ \E w \in Workers : pc[w] = "calc" /\ job[w].cfg \in OkFrames \ done

\* C4: when Start of a pipeline has returned, every worker it started has
\* terminated (the WaitGroup is at zero), and a recorded error is what it
\* returned.
C4_StartWaits ==
    Pipeline /\ mpc = "returned" =>
        /\ \A w \in Workers : pc[w] \in {"idle", "done"}
        /\ wg = 0
        /\ err # Nil => ret = err

\* C4 witness: Start returned the error a spawned worker recorded, after both
\* workers terminated.
C4_Witness ==
    /\ Pipeline /\ mpc = "returned" /\ par.NumCPU = 2
    /\ pc[1] = "done" /\ pc[2] = "done"
    /\ err # Nil /\ ret = err
    /\ reads[Len(reads)].w = 2

\* C5: after a successful RDF run, whatever the number of workers and the
\* interleaving, each histogram cell counts its increments over the frames of
\* the run exactly once, and the box-volume sum is the sum one worker alone
\* computes.
C5_PoolIndependent ==
    calc = "gr" /\ mpc = "returned" /\ ret = Nil =>
        /\ hstg = Counts(Len(hstg), CellsOfReads(OkReads))
        /\ vol = VolInOrder(F64(0, 0), 1)

\* C6 as stated: when a pipeline returns the error a worker recorded, the
\* frames decoded before it are all accounted for and the run has delivered
\* the output made from them: the rows of the volume run, the table of the
\* RDF run.
C6_PartialDelivered ==
    Pipeline /\ mpc = "returned" /\ err # Nil =>
        /\ done = OkFrames
        /\ Len(out) = IF calc = "gr" THEN 1 ELSE Cardinality(done)

\* C6 as amended: when a pipeline returns the error a worker recorded, it
\* returns that error, the frames decoded before it are all accounted for in
\* the accumulators (each histogram cell counts their increments once, the
\* volume sum is the first frame's box volume plus those of the others in
\* some order); the volume run has written exactly their rows, the RDF run
\* has written nothing.
C6_PartialKept ==
    Pipeline /\ mpc = "returned" /\ err # Nil =>
        /\ ret = err
        /\ done = OkFrames
        /\ calc = "gr" =>
               /\ hstg = Counts(Len(hstg), CellsOfReads(OkReads))
               /\ vol \in VolSums(BoxVolume(GrFrame(reads[1]).box),
                                  {i \in 2..Len(reads) : reads[i].ok})
               /\ out = <<>>
        /\ calc = "volume" =>
               /\ Len(out) = Cardinality(done)
               /\ {out[i].cfg : i \in 1..Len(out)} = done

\* C6 witness: an RDF run of two workers returned the error of its third
\* frame with the first two frames in its histogram and nothing written.
C6_Witness ==
    /\ calc = "gr" /\ mpc = "returned" /\ par.NumCPU = 2
    /\ err # Nil /\ ret = err
    /\ Cardinality(done) = 2
    /\ \A i \in 1..Len(hstg) : hstg[i][1] + hstg[i][2] + hstg[i][3] + hstg[i][4] = 2
    /\ out = <<>>

\* C7: in every calculation, when frame k of the run (CfgStart <= k <
\* CfgEnd) has an atom row with the wrong token count, Start returns an
\* error for that row whose step number is k.
C7_StepNamesFrame ==
    mpc = "returned" /\ Uniform =>
        \A k \in ReadFrames :
            BadRows(k) # {} => ret.cause = "ncols" /\ ret.step = k

\* C8: in the distance and radius-of-gyration calculations the rows written
\* so far are, at every point, those of the frames read so far, one per
\* frame and in increasing order from CfgStart; a run that returns without
\* error has written CfgEnd - CfgStart rows.
C8_RowPerFrame ==
    calc \in {"dist_two_atoms", "radius_gyration"} =>
        /\ Len(out) = Len(OkReads)
        /\ \A j \in 1..Len(out) : out[j].cfg = par.CfgStart + j - 1
        /\ (mpc = "returned" /\ ret = Nil) => Len(out) = par.CfgEnd - par.CfgStart

\* C9: in every calculation, an atom row of a frame of the run whose token
\* count is not colsLen makes the run fail, whether or not the calculation
\* selects the atom of that row.
C9_EveryRowChecked ==
    mpc = "returned" /\ Uniform =>
        \A k \in ReadFrames : BadRows(k) # {} => ret # Nil

\* C10: in every calculation, when a frame of the run after the first has a
\* number of atom rows that is not the atom count recorded from the first
\* frame, Start returns an error.
C10_MismatchFails ==
    mpc = "returned" =>
        \A k \in ReadFrames :
            (k > par.CfgStart /\ RowsIn(k) # atoms) => ret # Nil

\* ------------------------------------------------ the first frame of a run
\* The atom-count line and the column names (after "ITEM: ATOMS") of frame k
\* of the stream.
CountLine(k) == in[StartOf(k) + 3]

ColumnLine(k) == SubSeq(in[StartOf(k) + 8], 3, Len(in[StartOf(k) + 8]))

\* The first frame of the run has been reached, and it has been decoded.
FirstRead == reads # <<>>

FirstOk == reads # <<>> /\ reads[1].ok

\* The field names the calculation looks for in the column-header line.
NamesOf(c) == IF c = "dist_two_atoms" THEN DistColNames
              ELSE IF c = "radius_gyration" THEN GyrColNames
              ELSE IF c = "no_pbc" THEN NoPbcColNames
              ELSE GrColNames

\* The types of the selected atoms of the i-th frame a radius-of-gyration
\* run decoded, decoded from the same lines.
GyrTypes(i) ==
    IF i = 1 THEN GyrReadCfgFirst(in, reads[1].at, par.Atom1, par.Atom2).types
    ELSE GyrReadCfg(in, reads[i].at, atoms, colsLen, cols, par.Atom1, par.Atom2).types

\* C11: in every calculation, when the atom-count line of the first frame of
\* the run is not an integer, Start returns the parse error of that line from
\* readCfgFirst; the run does not go on with another atom count.
C11_BadCountFails ==
    (FirstRead /\ par.CfgStart < Frames
        /\ (Len(CountLine(par.CfgStart)) # 1 \/ ~IsNum(CountLine(par.CfgStart)[1])))
        => mpc = "returned" /\ ret.site = "readCfgFirst" /\ ret.cause = "atoi"

\* C12: in every calculation, when a required field name is not among the
\* column names of the first frame (whatever else is there, a repeated name
\* included), Start returns an error from readCfgFirst; and when the first
\* frame is decoded, every required field is bound to the index of a column
\* of that name.
C12_SchemaResolved ==
    (FirstRead /\ par.CfgStart < Frames) =>
        LET hdr   == ColumnLine(par.CfgStart)
            names == NamesOf(calc)
        IN  /\ (\E i \in 1..Len(names) : \A k \in 1..Len(hdr) : hdr[k] # names[i])
                   => mpc = "returned" /\ ret.site = "readCfgFirst"
            /\ FirstOk => \A i \in 1..Len(names) :
                              cols[i] + 1 \in 1..Len(hdr) /\ hdr[cols[i] + 1] = names[i]

\* C13: in the radius-of-gyration calculation, when a frame of the run has a
\* selected atom whose type has no mass, Start returns an error, no later
\* frame is read, and at no point is a decoded frame without its row.
C13_MissingMassFails ==
    calc = "radius_gyration" =>
        /\ \A i \in 1..Len(reads) :
               (reads[i].ok /\ GyrCalcErr(GyrTypes(i))) =>
                   /\ i = Len(reads)
                   /\ mpc = "returned" => ret # Nil
        /\ mpc = "returned" => Len(out) = Len(OkReads)

\* ------------------------------------------------- coordinates and rows
\* Atom row i (from 0) of frame k of the stream, and its x token (the tokens
\* before it are the id, and the type or molecule where there is one).
RowOf(k, i) == in[StartOf(k) + 9 + i]

XTok(k, i) == RowOf(k, i)[IF calc = "dist_two_atoms" THEN 2 ELSE 3]

\* The frames whose row of atom 1 has all its tokens and an x token that is
\* no number.
BadNumFrames ==
    {k \in 0..(Frames - 1) :
        LET p   == StartOf(k)
            row == LineAt(in, p + 10)
            x   == IF calc = "dist_two_atoms" THEN 2 ELSE 3
        IN  /\ Len(row) >= x
            /\ Len(row) = Len(LineAt(in, p + 8)) - 2
            /\ ~IsNum(row[x])
            /\ RowsIn(k) >= 2}

\* The x a calculation is to decode for atom i of frame k: 0 for a token
\* that is no number.
XOf(k, i) == IF IsNum(XTok(k, i)) THEN NumVal(XTok(k, i)) ELSE 0

\* C14: in every calculation a frame whose row of atom 1 has the right
\* number of tokens and an x token that is no number is decoded without
\* error wherever it is read, the x of that atom is 0 in what the
\* calculation computes from (the distance vector, the selected atoms of the
\* gyration row, the atoms of the volume row and of the RDF frame; in no_pbc
\* the row is written with 0 or 0 shifted by the box length of 8), and the
\* run returns no error.
C14_PermissiveParse ==
    \A k \in BadNumFrames :
        /\ \A i \in 1..Len(reads) : reads[i].cfg = k => reads[i].ok
        /\ mpc = "returned" => ret = Nil
        /\ calc = "dist_two_atoms" =>
               \A j \in 1..Len(out) :
                   out[j].cfg = k => out[j].vec[1] = XOf(k, par.Atom1) - XOf(k, par.Atom2)
        /\ calc = "radius_gyration" =>
               \A j \in 1..Len(out) :
                   out[j].cfg = k =>
                       \A a \in par.Atom1..(par.Atom2 - 1) :
                           out[j].xyz[a - par.Atom1 + 1][1] = XOf(k, a)
        /\ calc = "volume" =>
               \A j \in 1..Len(out) : out[j].cfg = k => out[j].xyz["A"][2][1] = 0
        /\ calc = "gr" =>
               \A w \in Workers : job[w].cfg = k => job[w].xyz["A"][2][1] = 0
        /\ calc = "no_pbc" =>
               \A j \in 1..Len(out) :
                   out[j].cfg = k => out[j].rows[2][3] \in {"-8", "0", "8"}

\* C14 witness: a no_pbc run returned without error after it wrote 0 for the
\* x of a row of a later frame whose x token is no number.
C14_Witness ==
    /\ calc = "no_pbc" /\ mpc = "returned" /\ ret = Nil
    /\ \E k \in BadNumFrames : k > 0 /\ out[k + 1].rows[2][3] = "0"

\* ------------------------------------------------------ the unwrapped rows
\* A step of the model is the reading of a later frame by no_pbc, without
\* error.
UnwrapStep ==
    /\ calc = "no_pbc" /\ mpc = "run"
    /\ Len(reads') = Len(reads) + 1
    /\ reads'[Len(reads')].ok

\* The coordinates decoded from row i (from 1) of the frame at the cursor,
\* and the box lengths of that frame.
RawAt(i) == RowXYZ(in[pos + 9 + i - 1], cols)

BoxAt == [k \in 1..3 |-> HeaderWOutAtoms(in, pos).box[k].lo]

\* The coordinate the unwrap step emits for v when d is the difference it
\* looks at and l the box length: one box length more or less when d is
\* beyond half the box.
Shifted(v, d, l) == IF 2 * d > l THEN v + l ELSE IF 2 * d < -l THEN v - l ELSE v

Unwrapped == {f \in 0..(Len(reads) - 1) : reads[f + 1].ok}

RawOf(f, i) == RowXYZ(in[reads[f + 1].at + 9 + i - 1], cols)

EmittedOf(f, i) == [k \in 1..3 |-> out[f + 1].rows[i][cols[k] + 1]]

\* The box lengths of frame f.
BoxOf(f) == [k \in 1..3 |-> HeaderWOutAtoms(in, reads[f + 1].at).box[k].lo]

\* Atom i never moves by more than half the box of the new frame between two
\* frames read.
Calm(i) ==
    \A f \in Unwrapped : \A k \in 1..3 :
        (f > 0 /\ f - 1 \in Unwrapped) =>
            /\ 2 * (RawOf(f, i)[k] - RawOf(f - 1, i)[k]) <= BoxOf(f)[k]
            /\ 2 * (RawOf(f - 1, i)[k] - RawOf(f, i)[k]) <= BoxOf(f)[k]

\* Atom i is written in every frame read with its raw coordinates.
Untouched(i) ==
    \A f \in Unwrapped : \A k \in 1..3 : EmittedOf(f, i)[k] = AppendFloat(RawOf(f, i)[k])

C17_FieldsKept ==
    calc = "no_pbc" =>
        \A f \in Unwrapped :
            /\ Len(out[f + 1].rows) = atoms
            /\ \A i \in 1..Len(out[f + 1].rows) :
                   LET row == in[reads[f + 1].at + 9 + i - 1]
                       new == out[f + 1].rows[i]
                   IN  /\ Len(new) = Len(row)
                       /\ \A k \in 1..Len(row) :
                              ColumnLine(0)[k] \notin {"x", "y", "z"} => new[k] = row[k]

\* C20: every call of Launch the dispatcher makes, on the calling thread or on
\* a goroutine, is for one position i of a step s, with the name Types[s][i]
\* and the file Files[s][i], and when Cfg.Start has returned every position
\* of every step has been launched once.
C20_Paired ==
    /\ \A j \in 1..Len(launches) :
           /\ launches[j].name = Types[launches[j].step + 1][launches[j].idx + 1]
           /\ launches[j].path = Files[launches[j].step + 1][launches[j].idx + 1]
    /\ spc = "returned" =>
           \A s \in 1..Len(Types) : \A i \in 1..Len(Types[s]) :
               Cardinality({j \in 1..Len(launches) :
                               launches[j].step = s - 1 /\ launches[j].idx = i - 1}) = 1

\* The Launch of position i (from 0) of step s (from 0) has returned.
Ended(s, i) == \E x \in ends : x.step = s /\ x.idx = i

\* C21: when the dispatcher calls Launch for a step, every calculation of
\* every earlier step has returned; when Cfg.Start has returned, every
\* calculation of every step has returned, whatever errors were returned; and
\* every error a Launch returned is in the log, with its step.
C21_StepBarrier ==
    /\ \A j \in 1..Len(launches) :
           \A s \in 0..(launches[j].step - 1) :
               \A i \in 0..(Len(Types[s + 1]) - 1) : Ended(s, i)
    /\ spc = "returned" =>
           \A s \in 0..(Len(Types) - 1) :
               \A i \in 0..(Len(Types[s + 1]) - 1) : Ended(s, i)
    /\ \A x \in ends :
           x.e # "nil" => \E k \in 1..Len(logs) : logs[k].step = x.step /\ logs[k].cause = x.e
    /\ Len(logs) = Cardinality({x \in ends : x.e # "nil"})

\* C21 witness: in the second step the calling thread and a goroutine are
\* both inside Launch, after a calculation of the first step returned an
\* error that was logged.
C21_Witness ==
    /\ step = 1 /\ spc = "launch" /\ gos[0] = "run"
    /\ \E k \in 1..Len(logs) : logs[k].step = 0 /\ logs[k].cause = "failed"

\* C22: in the two worker pipelines a worker that has claimed a frame index
\* and has not finished reading the frame holds the lock, no two workers are
\* in that position together, and a worker at the numeric work of a frame
\* has read that frame in full and does not hold the lock.
C22_StreamExclusive ==
    Pipeline =>
        /\ \A w \in Workers : pc[w] = "read" => mux = w
        /\ \A w1, w2 \in Workers : (pc[w1] = "read" /\ pc[w2] = "read") => w1 = w2
        /\ \A w \in Workers :
               pc[w] = "calc" =>
                   /\ mux # w
                   /\ \E i \in 1..Len(reads) :
                          reads[i].w = w /\ reads[i].cfg = job[w].cfg /\ reads[i].ok

\* C22 witness: a worker reads a frame with the lock held while another is at
\* the numeric work of the frame before.
C22_Witness ==
    /\ Pipeline
    /\ \E w1, w2 \in Workers :
           /\ pc[w1] = "read" /\ mux = w1
           /\ pc[w2] = "calc" /\ job[w2].cfg = cfg - (IF calc = "volume" THEN par.CfgSpacing + 1 ELSE 1)

\* Some goroutine of a worker pipeline can take a step: Start before its
\* workers, a worker inside its loop that is not waiting for a held lock, or
\* Start at a Wait that returns.
CanStep ==
    \/ mpc = "start"
    \/ /\ mpc = "run"
       /\ \/ \E w \in Workers :
                 /\ Running(w)
                 /\ \/ pc[w] \in {"read", "exit"}
                    \/ pc[w] = "loop" /\ mux = 0
                    \/ pc[w] = "calc" /\ (calc = "volume" \/ mux = 0)
          \/ pc[1] = "done" /\ wg = 0

\* C23: in the two worker pipelines, for every worker count and interleaving,
\* as long as Start has not returned some goroutine can take a step (every
\* run is finite, so every worker leaves its loop and Start returns); a
\* worker that leaves its loop holds the lock it then releases; and the
\* WaitGroup counts the workers that have not signalled yet.
C23_PoolEnds ==
    Pipeline =>
        /\ mpc = "returned" \/ CanStep
        /\ \A w \in Workers : pc[w] = "exit" => mux = w
        /\ mpc = "run" => wg = Cardinality({w \in Workers : Running(w) /\ pc[w] # "done"})

\* The stream is well-formed in its layout: every frame carries as many atom
\* rows as the first one and says so in its atom-count line.
WellFormed ==
    LET S == Starts
        n == RowsIn(0)
    IN  \A p \in S :
            /\ p + 9 + n \in S \cup {Len(in) + 1}
            /\ \A q \in S : ~(p < q /\ q < p + 9 + n)
            /\ in[p + 3] = <<NumTok[n + 1]>>

\* C24: on a well-formed stream, in every calculation, every read of a frame,
\* the first or a later one, after whatever frames were skipped or read
\* before, starts at the first line of the frame of its index (at the end of
\* the stream when there is no such frame), and a read
\* that decoded its frame leaves the cursor 9 + atoms lines further, on the
\* first line of the next frame.
C24_FrameAligned ==
    WellFormed =>
        /\ \A i \in 1..Len(reads) :
               reads[i].at = IF reads[i].cfg < Frames THEN StartOf(reads[i].cfg)
                             ELSE Len(in) + 1
        /\ (reads # <<>> /\ reads[Len(reads)].ok) =>
               pos = reads[Len(reads)].at + 9 + RowsIn(0)

\* C24 witness: a volume run that samples every second frame has skipped
\* frame 1 and read frame 2 from its first line to the end of the stream.
C24_Witness ==
    /\ calc = "volume" /\ WellFormed /\ par.CfgSpacing = 1 /\ par.CfgStart = 0
    /\ mpc = "returned" /\ ret = Nil
    /\ Len(reads) = 2 /\ reads[2].cfg = 2 /\ reads[2].at = StartOf(2)
    /\ pos = Len(in) + 1

\* The frame indices a volume run with spacing CfgSpacing samples.
Sampled ==
    {k \in par.CfgStart..(par.CfgEnd - 1) : (k - par.CfgStart) % (par.CfgSpacing + 1) = 0}

\* What the volume reader decodes at the first line of frame k of the stream.
VolFrame(k) ==
    IF k = par.CfgStart THEN VolReadCfgFirst(in, StartOf(k))
    ELSE VolReadCfg(in, StartOf(k), atoms, colsLen, cols)

\* C25: a volume run with spacing S that returns without error has written
\* exactly one row for each frame index CfgStart + j*(S+1) below CfgEnd and
\* no other row, and the row printed under index k is computed from the box
\* and the atoms of frame k of the stream.
C25_SpacedRows ==
    (calc = "volume" /\ mpc = "returned" /\ ret = Nil) =>
        /\ \A k \in Sampled : Cardinality({j \in 1..Len(out) : out[j].cfg = k}) = 1
        /\ \A j \in 1..Len(out) : out[j].cfg \in Sampled
        /\ \A j \in 1..Len(out) :
               /\ out[j].cfg < Frames
               /\ \E i \in 1..Len(reads) :
                      reads[i].cfg = out[j].cfg /\ reads[i].ok /\ reads[i].at = StartOf(out[j].cfg)
               /\ out[j] = VolRow(out[j].cfg, VolFrame(out[j].cfg).box, VolFrame(out[j].cfg).xyz)

C25_Witness ==
    /\ calc = "volume" /\ mpc = "returned" /\ ret = Nil
    /\ par.CfgSpacing = 1 /\ par.CfgStart = 0 /\ par.CfgEnd = 3
    /\ Len(out) = 2 /\ out[2].cfg = 2
    /\ out[1].xyz # out[2].xyz

\* C26: an RDF run that returns without error has added exactly
\* CfgEnd - CfgStart frames to the histogram and to the box-volume sum, each
\* frame of CfgStart..CfgEnd-1 once, and that number is the divisor of the
\* table it writes.
C26_FramesMatchDivisor ==
    (calc = "gr" /\ mpc = "returned" /\ ret = Nil) =>
        /\ Len(out) = 1
        /\ out[1].nbCfg = Len(OkReads)
        /\ out[1].nbCfg = Cardinality(done)
        /\ done = par.CfgStart..(par.CfgEnd - 1)
        /\ \A i \in 1..Len(reads) : reads[i].ok /\ reads[i].cfg = par.CfgStart + i - 1
        /\ out[1].hstg = Counts(Len(hstg), CellsOfReads(OkReads))
        /\ out[1].vol \in VolSums(F64(0, 0), 1..Len(reads))

C26_Witness ==
    /\ calc = "gr" /\ mpc = "returned" /\ ret = Nil
    /\ par.CfgStart = 1 /\ par.CfgEnd = 3 /\ par.NumCPU = 2
    /\ Len(out) = 1 /\ out[1].nbCfg = 2
    /\ \E i \in 1..Len(reads) : reads[i].w = 2

\* C27: in no_pbc, the box being the same in every frame and every raw
\* coordinate inside it, the coordinate written for an atom on an axis in a
\* frame differs from the one written in the frame before (the first frame
\* included) by at most half a box length.
C27_BoundedStep ==
    [][UnwrapStep =>
          \A i \in 1..atoms : \A k \in 1..3 :
              /\ 2 * (lastXYZ'[i][k] - lastXYZ[i][k]) <= BoxAt[k]
              /\ 2 * (lastXYZ[i][k] - lastXYZ'[i][k]) <= BoxAt[k]]_vars

\* The molecule id of atom row i (from 1) of the first frame, and the rows
\* before it that carry the same id.
MolOfRow(i) == in[9 + i][cols[4] + 1]

SameMolBefore(i) == {j \in 1..(i - 1) : MolOfRow(j) = MolOfRow(i)}

\* no_pbc has read and written the first frame and nothing else.
FirstDone == calc = "no_pbc" /\ mpc = "run" /\ Len(reads) = 1 /\ reads[1].ok

\* C28: in the first frame of no_pbc the running position of a molecule is
\* set from a raw coordinate at the first row that carries its id only: a
\* row whose id was carried by an earlier row, next to it or not, is written
\* relative to the position written for the last of these rows.
C28_InitOncePerMol ==
    FirstDone =>
        \A i \in 1..atoms : \A k \in 1..3 :
            lastXYZ[i][k] =
                IF SameMolBefore(i) = {} THEN RawOf(0, i)[k]
                ELSE LET j == CHOOSE x \in SameMolBefore(i) : \A y \in SameMolBefore(i) : y <= x
                     IN  FirstShift(lastXYZ[j][k], RawOf(0, i)[k],
                                    FirstSize2(MolOfRow(i), Header(in, 1).box)[k], BoxOf(0)[k])

\* The coordinate written for v when d is the difference looked at, t2 twice
\* the threshold and l the box length.
ShiftedBy(v, d, t2, l) == IF 2 * d > t2 THEN v + l ELSE IF 2 * d < -t2 THEN v - l ELSE v

\* The molecule id of atom row i (from 1) of the frame at the cursor.
MolAt(i) == in[pos + 9 + i - 1][cols[4] + 1]

\* C29: the threshold of the wrap test of an atom of no_pbc is the size
\* configured for its molecule id, or half the box when none is configured,
\* in the first frame (rows that go on the molecule of the row before) and
\* in every later frame.
C29_OverrideEveryFrame ==
    /\ [](FirstDone =>
            \A i \in 2..atoms : \A k \in 1..3 :
                MolOfRow(i) = MolOfRow(i - 1) =>
                    lastXYZ[i][k] =
                        ShiftedBy(RawOf(0, i)[k], lastXYZ[i - 1][k] - RawOf(0, i)[k],
                                  FirstSize2(MolOfRow(i), Header(in, 1).box)[k], BoxOf(0)[k]))
    /\ [][UnwrapStep =>
            \A i \in 1..atoms : \A k \in 1..3 :
                LET x == RawAt(i)[k] + corr[i][k]
                IN  lastXYZ'[i][k] =
                        ShiftedBy(x, lastXYZ[i][k] - x,
                                  FirstSize2(MolAt(i), HeaderWOutAtoms(in, pos).box)[k],
                                  BoxAt[k])]_vars

\* The trajectories of no_pbc without defect: every frame has the atom rows
\* its count line says, the columns x, y, z and mol once each and rows of as
\* many fields as columns, and the last atom row is the last line.
CleanTrajs ==
    {UnwrapFrom(m, who, 0, n, "none", 0) :
        m \in Motions, who \in 0..(Len(Elems) - 1), n \in {1, UnwrapFrames}}

\* C30: on a trajectory without defect of N >= 1 frames, N = 1 included,
\* NoPBC.Start writes N frames, stops at the end of the stream behind the
\* last atom row and returns no error.
C30_EndOfStream ==
    (calc = "no_pbc" /\ in \in CleanTrajs /\ mpc = "returned") =>
        /\ ret = Nil
        /\ Len(out) = Frames
        /\ \A f \in 1..Len(out) : Len(out[f].rows) = Len(Elems)
        /\ pos = Len(in) + 1

\* The frames a run has to read, and a stream that ends before one of them.
Needed == IF calc = "volume" THEN Sampled ELSE par.CfgStart..(par.CfgEnd - 1)

ShortStream == calc # "no_pbc" /\ \E k \in Needed : k >= Frames

\* C31: when the stream ends before a frame the run has to read (before frame
\* CfgStart, before frame CfgEnd - 1, or inside the frames skipped by
\* CfgSpacing), no reader panics, Start returns an error, and in the
\* pipelines a worker that has left its loop releases the lock and signals
\* its end: the run is never stuck and returns with the lock free.
C31_ShortFailsCleanly ==
    ShortStream =>
        /\ mpc # "panic"
        /\ mpc = "returned" => ret # Nil
        /\ Pipeline => (mpc = "returned" \/ CanStep)
        /\ (Pipeline /\ mpc = "returned" /\ reads # <<>> /\ reads[1].ok) => (mux = 0 /\ wg = 0)

\* C32: in the RDF calculation the histogram of the pair has one row per
\* atom of type A of the first frame, and on a stream whose frames all have
\* the same number of atoms every cell incremented for a later frame is in
\* one of these rows.
C32_RowInRange ==
    (calc = "gr" /\ FirstOk /\ WellFormed) =>
        /\ Len(hstg) = Len(GrFrame(reads[1]).xyz["A"])
        /\ \A j \in 1..Len(CellsOfReads(OkReads)) :
               CellsOfReads(OkReads)[j].row \in 0..(Len(hstg) - 1)

\* What readCfgFirst of the calculation makes of the first frame read: the
\* atom count, colsLen and the column bindings are its last three fields.
FirstFrame ==
    IF calc = "gr" THEN GrReadCfgFirst(in, reads[1].at)
    ELSE IF calc = "volume" THEN VolReadCfgFirst(in, reads[1].at)
    ELSE IF calc = "dist_two_atoms"
    THEN DistReadCfgFirst(in, reads[1].at, par.Atom1, par.Atom2)
    ELSE IF calc = "radius_gyration"
    THEN GyrReadCfgFirst(in, reads[1].at, par.Atom1, par.Atom2)
    ELSE NoPbcReadCfgFirst(in, reads[1].at)

\* What readCfg makes of the frame of the later read r with the atom count,
\* colsLen and bindings of F: the header without the atom count, one line
\* dropped, the rows.  no_pbc, whose rows depend on the frames before, is
\* left to its header.
LaterFrame(r, F) ==
    IF calc = "gr" THEN GrReadCfg(in, r.at, F.atoms, F.colsLen, F.cols)
    ELSE IF calc = "volume"
    THEN LET h == HeaderWOutAtoms(in, r.at)
             f == VolFetchXYZ(in, Skip(in, h.pos, 1), F.atoms, F.colsLen, F.cols)
         IN  [err |-> IF h.err # "nil" THEN h.err ELSE f.err, box |-> h.box, xyz |-> f.xyz]
    ELSE IF calc = "dist_two_atoms"
    THEN DistReadCfg(in, r.at, F.atoms, F.colsLen, F.cols, par.Atom1, par.Atom2)
    ELSE GyrReadCfg(in, r.at, F.atoms, F.colsLen, F.cols, par.Atom1, par.Atom2)

\* The later reads of a frame whose column-header line is not that of the
\* first frame read.
OtherHeader ==
    {i \in 2..Len(reads) :
        /\ reads[i].cfg < Frames
        /\ reads[i].at = StartOf(reads[i].cfg)
        /\ in[reads[i].at + 8] # in[reads[1].at + 8]}

\* C33: once the first frame has been read, no step of any worker changes
\* the atom count, colsLen or the column bindings, which are those
\* readCfgFirst took from the first frame; a later frame is decoded with
\* them, its own column-header line being read and dropped: the read fails
\* or not as that decoding does, what it hands to the calculation (the frame
\* of the worker, the row of the distance or of the radius of gyration) is
\* made from that decoding, and no_pbc writes the header line of the first
\* frame in its place.
C33_SchemaFixed ==
    [][FirstRead =>
          /\ atoms' = atoms /\ colsLen' = colsLen /\ cols' = cols
          /\ Len(reads') > Len(reads) =>
                 LET F == FirstFrame
                     r == reads'[Len(reads')]
                 IN  /\ atoms = F.atoms /\ colsLen = F.colsLen /\ cols = F.cols
                     /\ IF calc = "no_pbc"
                        THEN r.ok => out'[Len(out')].head[Len(out'[Len(out')].head)]
                                         = ColsBuf(in[reads[1].at + 8])
                        ELSE LET L == LaterFrame(r, F)
                             IN  /\ r.ok = (L.err = "nil")
                                 /\ (r.ok /\ Pipeline) =>
                                        job'[r.w].xyz = L.xyz /\ job'[r.w].box = L.box
                                 /\ (r.ok /\ calc = "dist_two_atoms") =>
                                        out'[Len(out')] =
                                            DistResult(r.cfg - par.CfgStart, par.CfgStart,
                                                       L.xyz1, L.xyz2)
                                 /\ (r.ok /\ calc = "radius_gyration" /\ ~GyrCalcErr(L.types)) =>
                                        out'[Len(out')] =
                                            GyrRow(r.cfg - par.CfgStart, par.CfgStart,
                                                   L.xyz, L.types)]_vars

\* C33 witness: a volume run returned without error after it read, and wrote
\* a row for, a later frame whose column-header line is not that of the
\* first frame.
C33_Witness ==
    /\ calc = "volume" /\ mpc = "returned" /\ ret = Nil
    /\ \E i \in OtherHeader : reads[i].ok /\ \E j \in 1..Len(out) : out[j].cfg = reads[i].cfg

\* The cuboid neighbourhood of an analyte atom at a: the cells within Blocs
\* cells of the atom's own cell on each axis, wrapped at the box edges.
Neighbourhood(a, box) ==
    LET near(k) == {WrapCell(x, RoundDiv(box[k].lo, Bloc)) :
                       x \in (TruncDiv(a[k], Bloc) - Blocs)..(TruncDiv(a[k], Bloc) + Blocs)}
    IN  near(1) \X near(2) \X near(3)

Neighbourhoods(box, xyz) ==
    UNION {Neighbourhood(xyz["A"][i], box) : i \in 1..Len(xyz["A"])}

\* C34: the cells Volume.calc evaluates for a frame are the union of the
\* cuboid neighbourhoods of the analyte atoms of the frame, and every cell
\* counted as analyte volume is in the neighbourhood of an analyte atom.
C34_CandidateCells ==
    calc = "volume" =>
        \A j \in 1..Len(out) :
            /\ Candidates(out[j].box, out[j].xyz) = Neighbourhoods(out[j].box, out[j].xyz)
            /\ out[j].pts \subseteq Neighbourhoods(out[j].box, out[j].xyz)

\* C18: in the RDF calculation every cell that is incremented for a pair no
\* further apart than RMax (RMax included) has a bin index in 0..bins-1.
C18_BinInRange ==
    calc = "gr" /\ FirstOk =>
        \A j \in 1..Len(CellsOfReads(OkReads)) :
            CellsOfReads(OkReads)[j].bin \in 0..(Bins - 1)

\* C19: every cell a row of the volume run counts as analyte volume is
\* strictly nearer to its nearest analyte atom than to every atom of the
\* other type, in distance normalized by the type's radius: dist/sigma for
\* both, or, for the analyte, the squared quantity (dist/sigma)^2 the kernel
\* compares with.  A cell at equal normalized distance is not counted.
C19_StrictlyNearer ==
    calc = "volume" =>
        \A j \in 1..Len(out) : \A lit \in out[j].pts :
            \A d2o \in CellDist2(lit, out[j].box, out[j].xyz, "B") :
                LET d2a == Least(CellDist2(lit, out[j].box, out[j].xyz, "A"))
                    sa2 == Sigma["A"] * Sigma["A"]
                    so2 == Sigma["B"] * Sigma["B"]
                IN  \/ d2a * so2 < d2o * sa2
                    \/ d2a * d2a * so2 < d2o * sa2 * sa2

====
